---- MODULE Spec2Model ----
(***************************************************************************)
(* A model of the forward-error-correction path of aioquic: the GF(256)    *)
(* arithmetic and solver (fec/gf256_op.py), the TinyMT32 coefficient       *)
(* generator (fec/tiny_mt_32.py), the FEC encoder and recoverer            *)
(* (fec/fec.py) and the packet builder's repair-packet surface             *)
(* (quic/packet_builder.py).                                               *)
(*                                                                         *)
(* Bytes are integers 0..255, byte strings are sequences of bytes, Python  *)
(* lists are sequences (index i of the source is index i+1 here).          *)
(***************************************************************************)
EXTENDS Integers, Sequences, FiniteSets, TLC

(***************************************************************************)
(* Python list helpers                                                     *)
(***************************************************************************)

\* F(v) with v evaluated once, before F is applied: the value of an argument or
\* of a LET definition is otherwise computed again at each of its uses
Let(v, F(_)) == CHOOSE r \in {F(x) : x \in {v}} : TRUE

\* max(a, b) / min(a, b)
Max2(a, b) == IF a >= b THEN a ELSE b
Min2(a, b) == IF a <= b THEN a ELSE b

\* [x] * n
Repeat(x, n) == [i \in 1..Max2(n, 0) |-> x] \o <<>>

\* lst[k:] with Python's treatment of a negative or too large k
SliceFrom(lst, k) ==
    Let(IF k < 0 THEN Max2(Len(lst) + k, 0) ELSE Min2(k, Len(lst)), LAMBDA s :
        [i \in 1..(Len(lst) - s) |-> lst[s + i]] \o <<>>)

\* lst[:k] with Python's treatment of a negative or too large k
SliceTo(lst, k) ==
    Let(IF k < 0 THEN Max2(Len(lst) + k, 0) ELSE Min2(k, Len(lst)), LAMBDA e :
        [i \in 1..e |-> lst[i]] \o <<>>)

\* lst.insert(pos, x) for 0 <= pos: everything from index pos on moves up by one
ListInsert(lst, pos, x) ==
    Let(Min2(pos, Len(lst)), LAMBDA p :
        [i \in 1..(Len(lst) + 1) |->
            IF i <= p THEN lst[i] ELSE IF i = p + 1 THEN x ELSE lst[i - 1]] \o <<>>)

\* [F(i) for i in 1..n] as a sequence
MapIdx(n, F(_)) == [i \in 1..n |-> F(i)] \o <<>>

\* the entries of lst (0-based index i) with keep(i), in order
SelectIdx(lst, keep(_)) ==
    LET RECURSIVE Go(_, _)
        Go(i, acc) ==
            IF i > Len(lst) THEN acc
            ELSE IF keep(i - 1)
                 THEN Let(Append(acc, lst[i]), LAMBDA acc1 : Go(i + 1, acc1))
                 ELSE Go(i + 1, acc)
    IN  Go(1, <<>>)

\* i in lst
InList(i, lst) == \E k \in 1..Len(lst) : lst[k] = i

\* max(len(v) for v in vectors); 0 for the empty list, where Python raises
MaxLenOf(vectors) ==
    LET RECURSIVE Go(_, _)
        Go(i, m) ==
            IF i > Len(vectors) THEN m
            ELSE Let(Max2(m, Len(vectors[i])), LAMBDA m1 : Go(i + 1, m1))
    IN  Go(1, 0)

(***************************************************************************)
(* GF(256): fec/gf256_op.py, class GF256Number.  The lookup tables of      *)
(* module gf256_table are not part of the sources at hand; they are the    *)
(* tables of the field GF(2^8) whose product satisfies the self test of    *)
(* gf256_op.py (0x53 * 0xCA = 0x8F), that is, of the polynomial 0x11D,     *)
(* given here through the powers of the generator 2.                       *)
(***************************************************************************)

RECURSIVE BitXor(_, _)
\* a ^ b on naturals
BitXor(a, b) ==
    IF a = 0 THEN b
    ELSE IF b = 0 THEN a
    ELSE 2 * BitXor(a \div 2, b \div 2) + ((a + b) % 2)

RECURSIVE BitAnd(_, _)
\* a & b on naturals
BitAnd(a, b) ==
    IF a = 0 \/ b = 0 THEN 0
    ELSE 2 * BitAnd(a \div 2, b \div 2) + ((a % 2) * (b % 2))

\* gf256_exp[i + 1] = 2^i in GF(256), i in 0..254
gf256_exp ==
  <<
     1, 2, 4, 8, 16, 32, 64, 128, 29, 58, 116, 232, 205, 135, 19, 38,
     76, 152, 45, 90, 180, 117, 234, 201, 143, 3, 6, 12, 24, 48, 96, 192,
     157, 39, 78, 156, 37, 74, 148, 53, 106, 212, 181, 119, 238, 193, 159, 35,
     70, 140, 5, 10, 20, 40, 80, 160, 93, 186, 105, 210, 185, 111, 222, 161,
     95, 190, 97, 194, 153, 47, 94, 188, 101, 202, 137, 15, 30, 60, 120, 240,
     253, 231, 211, 187, 107, 214, 177, 127, 254, 225, 223, 163, 91, 182, 113, 226,
     217, 175, 67, 134, 17, 34, 68, 136, 13, 26, 52, 104, 208, 189, 103, 206,
     129, 31, 62, 124, 248, 237, 199, 147, 59, 118, 236, 197, 151, 51, 102, 204,
     133, 23, 46, 92, 184, 109, 218, 169, 79, 158, 33, 66, 132, 21, 42, 84,
     168, 77, 154, 41, 82, 164, 85, 170, 73, 146, 57, 114, 228, 213, 183, 115,
     230, 209, 191, 99, 198, 145, 63, 126, 252, 229, 215, 179, 123, 246, 241, 255,
     227, 219, 171, 75, 150, 49, 98, 196, 149, 55, 110, 220, 165, 87, 174, 65,
     130, 25, 50, 100, 200, 141, 7, 14, 28, 56, 112, 224, 221, 167, 83, 166,
     81, 162, 89, 178, 121, 242, 249, 239, 195, 155, 43, 86, 172, 69, 138, 9,
     18, 36, 72, 144, 61, 122, 244, 245, 247, 243, 251, 235, 203, 139, 11, 22,
     44, 88, 176, 125, 250, 233, 207, 131, 27, 54, 108, 216, 173, 71, 142
  >>

\* gf256_log[a] = the i with 2^i = a, a in 1..255
gf256_log ==
  <<
     0, 1, 25, 2, 50, 26, 198, 3, 223, 51, 238, 27, 104, 199, 75, 4,
     100, 224, 14, 52, 141, 239, 129, 28, 193, 105, 248, 200, 8, 76, 113, 5,
     138, 101, 47, 225, 36, 15, 33, 53, 147, 142, 218, 240, 18, 130, 69, 29,
     181, 194, 125, 106, 39, 249, 185, 201, 154, 9, 120, 77, 228, 114, 166, 6,
     191, 139, 98, 102, 221, 48, 253, 226, 152, 37, 179, 16, 145, 34, 136, 54,
     208, 148, 206, 143, 150, 219, 189, 241, 210, 19, 92, 131, 56, 70, 64, 30,
     66, 182, 163, 195, 72, 126, 110, 107, 58, 40, 84, 250, 133, 186, 61, 202,
     94, 155, 159, 10, 21, 121, 43, 78, 212, 229, 172, 115, 243, 167, 87, 7,
     112, 192, 247, 140, 128, 99, 13, 103, 74, 222, 237, 49, 197, 254, 24, 227,
     165, 153, 119, 38, 184, 180, 124, 17, 68, 146, 217, 35, 32, 137, 46, 55,
     63, 209, 91, 149, 188, 207, 205, 144, 135, 151, 178, 220, 252, 190, 97, 242,
     86, 211, 171, 20, 42, 93, 158, 132, 60, 57, 83, 71, 109, 65, 162, 31,
     45, 67, 216, 183, 123, 164, 118, 196, 23, 73, 236, 127, 12, 111, 246, 108,
     161, 59, 82, 41, 157, 85, 170, 251, 96, 134, 177, 187, 204, 62, 90, 203,
     89, 95, 176, 156, 169, 160, 81, 11, 245, 22, 235, 122, 117, 44, 215, 79,
     174, 213, 233, 230, 231, 173, 232, 116, 214, 244, 234, 168, 80, 88, 175
  >>

\* gf256_mul_table[a][b]
gf256_mul_table(a, b) ==
    IF a = 0 \/ b = 0 THEN 0
    ELSE gf256_exp[((gf256_log[a] + gf256_log[b]) % 255) + 1]

\* gf256_inv_table[a]; the entry for 0 is 0
gf256_inv_table(a) ==
    IF a = 0 THEN 0 ELSE gf256_exp[((255 - gf256_log[a]) % 255) + 1]

\* GF256Number.__add__ (and __sub__, which is the same operation)
GFAdd(a, b) == BitXor(a, b)

\* GF256Number.__mul__
GFMul(a, b) == gf256_mul_table(a, b)

\* a division that multiplies by b, not by its inverse
GFDiv_NoInverse(a, b) == gf256_mul_table(a, b)

\* GF256Number.__truediv__: a table lookup, also for b = 0
GFDiv(a, b) == gf256_mul_table(a, gf256_inv_table(b))

(***************************************************************************)
(* GF256Vector: a sequence of field elements                               *)
(***************************************************************************)

\* GF256Vector(v, padding, trailing)
GF256Vector(v, padding, trailing) == Repeat(0, padding) \o v \o Repeat(0, trailing)

\* GF256Vector.scale
VecScale(v, c) == [i \in 1..Len(v) |-> GFMul(c, v[i])] \o <<>>

\* GF256Vector.__add__ / __sub__: the result has the shorter length
VecAdd(v, w) == [i \in 1..Min2(Len(v), Len(w)) |-> GFAdd(v[i], w[i])] \o <<>>

(***************************************************************************)
(* TinyMT32: fec/tiny_mt_32.py.  A 32-bit word is the pair <<hi, lo>> of   *)
(* its 16-bit halves; every operation wraps at 32 bits, as np.uint32 does. *)
(***************************************************************************)

\* 2^k
Pow2(k) == LET RECURSIVE P(_)
               P(n) == IF n = 0 THEN 1 ELSE 2 * P(n - 1)
           IN  P(k)

Half == 256 * 256

\* np.uint32(n) for 0 <= n < 2^16
W(n) == <<0, n>>

\* np.uint32 constants of class Tinymt32
MIN_LOOP == 8
PRE_LOOP == 8
SH0 == 1
SH1 == 10
SH8 == 8
\* MASK = 0x7fffffff
MASK == <<32767, 65535>>
\* mat1 = 0x8f7011ee, mat2 = 0xfc78ff1f, tmat = 0x3793fdff
mat1 == <<36720, 4590>>
mat2 == <<64632, 65311>>
tmat == <<14227, 65023>>
\* 1812433253 = 0x6C078965
InitMult == <<27655, 35173>>

WXor(a, b) == <<BitXor(a[1], b[1]), BitXor(a[2], b[2])>>
WAnd(a, b) == <<BitAnd(a[1], b[1]), BitAnd(a[2], b[2])>>

\* a << k for 0 < k < 16, bits above 2^32 dropped
WShl(a, k) ==
    <<((a[1] * Pow2(k)) + ((a[2] * Pow2(k)) \div Half)) % Half, (a[2] * Pow2(k)) % Half>>

\* a >> k for 0 < k < 32
WShr(a, k) ==
    IF k >= 16 THEN <<0, a[1] \div Pow2(k - 16)>>
    ELSE <<a[1] \div Pow2(k), (a[2] \div Pow2(k)) + ((a[1] % Pow2(k)) * Pow2(16 - k))>>

\* a + b modulo 2^32
WAdd(a, b) ==
    <<(a[1] + b[1] + ((a[2] + b[2]) \div Half)) % Half, (a[2] + b[2]) % Half>>

\* a * b modulo 2^32, by bytes
WMul(a, b) ==
    Let(<<a[2] % 256, a[2] \div 256, a[1] % 256, a[1] \div 256>>, LAMBDA x :
    Let(<<b[2] % 256, b[2] \div 256, b[1] % 256, b[1] \div 256>>, LAMBDA y :
    Let(x[1] * y[1], LAMBDA c0 :
    Let(x[1] * y[2] + x[2] * y[1] + (c0 \div 256), LAMBDA c1 :
    Let(x[1] * y[3] + x[2] * y[2] + x[3] * y[1] + (c1 \div 256), LAMBDA c2 :
    Let(x[1] * y[4] + x[2] * y[3] + x[3] * y[2] + x[4] * y[1] + (c2 \div 256), LAMBDA c3 :
        <<(c3 % 256) * 256 + (c2 % 256), (c1 % 256) * 256 + (c0 % 256)>>))))))

\* Tinymt32.next_state: status is the sequence <<status[0], .., status[3]>>
next_state(status) ==
    Let(WXor(WXor(WAnd(status[1], MASK), status[2]), status[3]), LAMBDA x0 :
    Let(WXor(x0, WShl(x0, SH0)), LAMBDA x :
    Let(WXor(status[4], WXor(WShr(status[4], SH0), x)), LAMBDA y :
    Let(WXor(x, WShl(y, SH1)), LAMBDA s2 :
        IF y[2] % 2 = 1
        THEN <<status[2], WXor(status[3], mat1), WXor(s2, mat2), y>>
        ELSE <<status[2], status[3], s2, y>>))))

\* Tinymt32.temper
temper(status) ==
    Let(WAdd(status[1], WShr(status[3], SH8)), LAMBDA t1 :
    Let(WXor(status[4], t1), LAMBDA t0 :
        IF t1[2] % 2 = 1 THEN WXor(t0, tmat) ELSE t0))

\* Tinymt32.__init__: the status after seeding and the PRE_LOOP state steps
Tinymt32(seed) ==
    LET RECURSIVE Mix(_, _)
        Mix(st, i) ==
            IF i >= MIN_LOOP THEN st
            ELSE Let(st[((i - 1) % 4) + 1], LAMBDA prev :
                 Let(WAdd(W(i), WMul(InitMult, WXor(prev, WShr(prev, 30)))), LAMBDA v :
                 Let([st EXCEPT ![(i % 4) + 1] = WXor(@, v)], LAMBDA st1 :
                     Mix(st1, i + 1))))
        RECURSIVE Pre(_, _)
        Pre(st, i) ==
            IF i >= PRE_LOOP THEN st
            ELSE Let(next_state(st), LAMBDA st1 : Pre(st1, i + 1))
    IN  Let(<<W(seed), mat1, mat2, tmat>>, LAMBDA st0 :
        Let(Mix(st0, 1), LAMBDA st1 : Pre(st1, 0)))

\* Tinymt32.generate_uint32: <<the status after the step, the word drawn>>
generate_uint32(status) ==
    Let(next_state(status), LAMBDA st : <<st, temper(st)>>)

\* Tinymt32.rand256: <<status, generate_uint32() & 0xFF>>
rand256(status) ==
    Let(generate_uint32(status), LAMBDA g : <<g[1], g[2][2] % 256>>)

\* Tinymt32.rand16: <<status, generate_uint32() & 0xF>>
rand16(status) ==
    Let(generate_uint32(status), LAMBDA g : <<g[1], g[2][2] % 16>>)

\* one draw, kept even when it is 0
NonZero256_OneDraw(status) == rand256(status)

RECURSIVE NonZero256(_)
\* num = rand256(); while num == 0: num = rand256()
NonZero256(status) ==
    Let(rand256(status), LAMBDA r : IF r[2] = 0 THEN NonZero256(r[1]) ELSE r)

\* generate_coding_coefficients(repair_key, window_size, dt)
generate_coding_coefficients(repair_key, window_size, dt) ==
    LET RECURSIVE Go(_, _, _)
        Go(st, i, res) ==
            IF i >= window_size THEN res
            ELSE IF dt >= 15
            THEN Let(NonZero256(st), LAMBDA r :
                 Let(Append(res, r[2]), LAMBDA res1 : Go(r[1], i + 1, res1)))
            ELSE Let(rand16(st), LAMBDA d :
                     IF d[2] <= dt
                     THEN Let(NonZero256(d[1]), LAMBDA r :
                          Let(Append(res, r[2]), LAMBDA res1 : Go(r[1], i + 1, res1)))
                     ELSE Let(Append(res, 0), LAMBDA res1 : Go(d[1], i + 1, res1)))
    IN  Let(Tinymt32(repair_key), LAMBDA st0 : Go(st0, 0, <<>>))

\* module constants of fec/fec.py
FEC_MAX_DENSITY == 15
EW_SIZE == 5
FEC_PACE == 2
NUM_REPAIR == 2
FEC_REPAIR_KEY_UPPER_BOUND == 256

\* the repair keys of the repair symbols that arrive at the recoverer
RepairKeys == {0, 1}

\* the keys the coefficient vectors are tabulated for
TableKeys == 0..7

\* the coefficient vectors of the dense mode, computed once
CoefficientTable ==
    [k \in TableKeys |->
        [n \in 0..EW_SIZE |-> generate_coding_coefficients(k, n, FEC_MAX_DENSITY)]]

\* generate_coding_coefficients(repair_key, window_size, FEC_MAX_DENSITY)
coding_coefficients(repair_key, window_size) ==
    IF repair_key \in TableKeys /\ window_size \in 0..EW_SIZE
    THEN CoefficientTable[repair_key][window_size]
    ELSE generate_coding_coefficients(repair_key, window_size, FEC_MAX_DENSITY)

(***************************************************************************)
(* The linear-combination engine and the solver: fec/gf256_op.py           *)
(***************************************************************************)

\* res += v.scale(c) for the pairs of zip(vectors, coefficients), from res on
AddScaled(res, vectors, coefficients) ==
    LET RECURSIVE Go(_, _)
        Go(i, acc) ==
            IF i > Min2(Len(vectors), Len(coefficients)) THEN acc
            ELSE Let(VecScale(vectors[i], coefficients[i]), LAMBDA sc :
                 Let(VecAdd(acc, sc), LAMBDA acc1 : Go(i + 1, acc1)))
    IN  Go(1, res)

\* the padding of GF256LinearCombination: zeros on the left, up to max_len
PadForCombination(vector, max_len) == GF256Vector(vector, max_len - Len(vector), 0)

\* GF256LinearCombination(vectors, coefficients), for a non-empty list of byte
\* strings
GF256LinearCombination(vectors, coefficients) ==
    Let(MaxLenOf(vectors), LAMBDA max_len :
    Let(MapIdx(Len(vectors), LAMBDA i : PadForCombination(vectors[i], max_len)),
        LAMBDA padded :
        AddScaled(Repeat(0, max_len), padded, coefficients)))

\* GF256System.swapRows on the system sys = [eqs |-> rows, cons |-> payloads]
swapRows(sys, i, j) ==
    [eqs  |-> [sys.eqs  EXCEPT ![i] = sys.eqs[j],  ![j] = sys.eqs[i]],
     cons |-> [sys.cons EXCEPT ![i] = sys.cons[j], ![j] = sys.cons[i]]]

\* where the search of gaussElimination for the pivot row starts: i_max = 0
PivotStart(r) == 0

\* the search of gaussElimination for the pivot row of column c (0-based) among
\* the rows r..m-1
PivotRow(eqs, r, c) ==
    LET RECURSIVE Go(_, _)
        Go(i, i_max) ==
            IF i >= Len(eqs) THEN i_max
            ELSE IF eqs[i + 1][c + 1] > eqs[i_max + 1][c + 1]
                 THEN Go(i + 1, i)
                 ELSE Go(i + 1, i_max)
    IN  Go(r, PivotStart(r))

\* one row operation of gaussElimination: row i (0-based) after the step on
\* column c with the pivot row r
EliminateRow(sys, r, c, i) ==
    Let(GFDiv(sys.eqs[i + 1][c + 1], sys.eqs[r + 1][c + 1]), LAMBDA f :
    Let([sys.eqs[i + 1] EXCEPT ![c + 1] = 0], LAMBDA row0 :
    Let(VecAdd(row0, VecScale(sys.eqs[r + 1], f)), LAMBDA row :
    Let(VecAdd(sys.cons[i + 1], VecScale(sys.cons[r + 1], f)), LAMBDA con :
        [eqs  |-> [sys.eqs  EXCEPT ![i + 1] = row],
         cons |-> [sys.cons EXCEPT ![i + 1] = con]]))))

\* the inner loop of gaussElimination: the rows below r after the step on column c
Eliminate(sys, r, c) ==
    LET RECURSIVE Go(_, _)
        Go(s, i) ==
            IF i >= Len(s.eqs) THEN s
            ELSE Let(EliminateRow(s, r, c, i), LAMBDA s1 : Go(s1, i + 1))
    IN  Go(sys, r + 1)

\* one iteration of the while loop of gaussElimination on st = [sys, r, c]; n
\* is not needed here.  i_max is the row the search chose and swapped tells
\* whether it was swapped into row r (otherwise only c advanced)
GaussStep(st) ==
    Let(PivotRow(st.sys.eqs, st.r, st.c), LAMBDA i_max :
        IF st.sys.eqs[i_max + 1][st.c + 1] = 0
        THEN [sys |-> st.sys, r |-> st.r, c |-> st.c + 1,
              i_max |-> i_max, swapped |-> FALSE]
        ELSE Let(swapRows(st.sys, st.r + 1, i_max + 1), LAMBDA s1 :
             Let(Eliminate(s1, st.r, st.c), LAMBDA s2 :
                 [sys |-> s2, r |-> st.r + 1, c |-> st.c + 1,
                  i_max |-> i_max, swapped |-> TRUE])))

\* r = 0, c = 0 before the while loop of gaussElimination
GaussStart(sys) == [sys |-> sys, r |-> 0, c |-> 0, i_max |-> 0, swapped |-> FALSE]

\* the condition of the while loop of gaussElimination; n is len(self.vars)
GaussRunning(st, n) == st.r < Len(st.sys.eqs) /\ st.c < n

\* GF256System.gaussElimination; n is len(self.vars)
gaussElimination(sys, n) ==
    LET RECURSIVE Loop(_)
        Loop(st) == IF ~GaussRunning(st, n) THEN st.sys ELSE Loop(GaussStep(st))
    IN  Loop(GaussStart(sys))

\* the inner loop of solve for row r: the columns m-1 down to r+1
SolveCols(sys, r) ==
    LET RECURSIVE Cols(_, _)
        Cols(s, c) ==
            IF c <= r THEN s
            ELSE Let(VecAdd(s.cons[r + 1], VecScale(s.cons[c + 1], s.eqs[r + 1][c + 1])),
                     LAMBDA con :
                 Let([eqs  |-> [s.eqs EXCEPT ![r + 1][c + 1] = 0],
                      cons |-> [s.cons EXCEPT ![r + 1] = con]], LAMBDA s1 :
                     Cols(s1, c - 1)))
    IN  Cols(sys, Len(sys.eqs) - 1)

\* GF256System.solve: back substitution, dividing by the diagonal whatever it is
solve(sys) ==
    LET RECURSIVE Rows(_, _)
        Rows(s, r) ==
            IF r < 0 THEN s
            ELSE Let(SolveCols(s, r), LAMBDA t :
                 Let(VecScale(t.cons[r + 1], GFDiv(1, t.eqs[r + 1][r + 1])), LAMBDA con :
                 Let([eqs  |-> [t.eqs EXCEPT ![r + 1][r + 1] = 1],
                      cons |-> [t.cons EXCEPT ![r + 1] = con]], LAMBDA s1 :
                     Rows(s1, r - 1))))
    IN  Rows(sys, Len(sys.eqs) - 1)

\* the padding of the received payloads in GF256PacketRecover: trailing zeros
PadForRecovery(vector, max_len) == GF256Vector(vector, 0, max_len - Len(vector))

\* GF256PacketRecover(repair_vectors, data_vectors, coefficients, lost_coefficients):
\* [raised |-> the call raised (max() of an empty list), packets |-> the result]
GF256PacketRecover(repair_vectors, data_vectors, coefficients, lost_coefficients) ==
    IF Len(data_vectors) = 0 \/ Len(repair_vectors) = 0
    THEN [raised |-> TRUE, packets |-> <<>>]
    ELSE
    Let(Max2(MaxLenOf(data_vectors), Len(repair_vectors[1])), LAMBDA max_len :
    Let(MapIdx(Len(data_vectors), LAMBDA j : PadForRecovery(data_vectors[j], max_len)),
        LAMBDA data :
    Let(MapIdx(Len(repair_vectors),
               LAMBDA i : AddScaled(repair_vectors[i], data, coefficients[i])),
        LAMBDA cons :
    Let(gaussElimination([eqs |-> lost_coefficients, cons |-> cons], Len(repair_vectors)),
        LAMBDA reduced :
    Let(solve(reduced), LAMBDA solved :
        [raised |-> FALSE, packets |-> solved.cons])))))

(***************************************************************************)
(* Symbols: fec/fec.py.  A slot of _source_symbols is a SourceSymbol or     *)
(* None; None is the symbol record with is_none set.                       *)
(***************************************************************************)

\* class SourceSymbol
SourceSymbol(packet_number, data) ==
    [is_none |-> FALSE, packet_number |-> packet_number, data |-> data]

\* Python's None in a slot of _source_symbols
None == [is_none |-> TRUE, packet_number |-> 0, data |-> <<>>]

\* class RepairSymbol
RepairSymbol(fss_esi, nss, repair_key, data) ==
    [fss_esi |-> fss_esi, nss |-> nss, repair_key |-> repair_key, data |-> data]

(***************************************************************************)
(* FECRecoverer: fec/fec.py.  rec is the record of the three fields.       *)
(***************************************************************************)

\* FECRecoverer.__init__
FECRecoverer ==
    [source_symbols_start |-> 0, source_symbols |-> <<>>, repair_symbols |-> <<>>]

\* lst += [None] * (n - len(lst)) when len(lst) < n
ExtendTo(lst, n) == IF Len(lst) < n THEN lst \o Repeat(None, n - Len(lst)) ELSE lst

\* the store of add_source_symbol: self._source_symbols.insert(pos, symbol)
StoreSource(lst, pos, symbol) == ListInsert(lst, pos, symbol)

\* FECRecoverer.add_source_symbol
add_source_symbol(rec, symbol) ==
    Let(symbol.packet_number - rec.source_symbols_start, LAMBDA pos :
        IF pos < 0 THEN rec
        ELSE Let(ExtendTo(rec.source_symbols, pos + 1), LAMBDA ext :
                 [rec EXCEPT !.source_symbols = StoreSource(ext, pos, symbol)]))

\* the test of add_repair_symbol for an advancing repair symbol
Advancing(rec, symbol, new_source_symbols_start) ==
    /\ Len(rec.repair_symbols) > 0
    /\ \/ symbol.fss_esi > rec.repair_symbols[1].fss_esi
       \/ new_source_symbols_start > rec.source_symbols_start

\* the shift of add_repair_symbol:
\* self._source_symbols[move_step:] if len(self._source_symbols) > move_step else []
ShiftSources(lst, move_step) ==
    IF Len(lst) > move_step THEN SliceFrom(lst, move_step) ELSE <<>>

\* FECRecoverer.add_repair_symbol
add_repair_symbol(rec, symbol) ==
    Let(symbol.fss_esi - symbol.nss + 1, LAMBDA new_source_symbols_start :
        IF Advancing(rec, symbol, new_source_symbols_start)
        THEN [source_symbols_start |-> new_source_symbols_start,
              source_symbols       |->
                  ShiftSources(rec.source_symbols,
                               new_source_symbols_start - rec.source_symbols_start),
              repair_symbols       |-> <<symbol>>]
        ELSE [rec EXCEPT !.repair_symbols = Append(@, symbol)])

\* the indices i (0-based, increasing) of window with window[i] None
MissingIndices(window) ==
    SelectIdx(MapIdx(Len(window), LAMBDA i : i - 1), LAMBDA i : window[i + 1].is_none)

\* a test that lets every loss through to the solver
CanRecover_AnyLoss(n_missing, n_repair) == n_missing > 0

\* "if can recover" of recover
CanRecover(n_missing, n_repair) == n_missing <= n_repair /\ n_missing > 0

\* all buffered repair symbols, surplus included
UsedRepairs_All(repair_symbols, n_missing) == repair_symbols

\* "remove extra repair symbols" of recover
UsedRepairs(repair_symbols, n_missing) == SliceTo(repair_symbols, n_missing)

\* "if recovered_data:" of recover: a non-empty list is true
Truthy(recovered_data) == Len(recovered_data) > 0

\* a write-back loop that returns the symbols and stores none of them
Publish_ReturnOnly(source_symbols, start, missing, recovered_data) ==
    <<source_symbols,
      MapIdx(Len(recovered_data),
             LAMBDA i : SourceSymbol(missing[i] + start, recovered_data[i]))>>

\* the write-back loop of recover: <<_source_symbols, symbols_to_return>>
Publish(source_symbols, start, missing, recovered_data) ==
    LET RECURSIVE Go(_, _, _)
        Go(i, lst, out) ==
            IF i > Len(recovered_data) THEN <<lst, out>>
            ELSE Let(SourceSymbol(missing[i] + start, recovered_data[i]), LAMBDA sym :
                 Let([lst EXCEPT ![missing[i] + 1] = sym], LAMBDA lst1 :
                 Let(Append(out, sym), LAMBDA out1 : Go(i + 1, lst1, out1))))
    IN  Go(1, source_symbols, <<>>)

\* what a call of recover that does not reach the solver reports
NoCall(rec) ==
    [rec |-> rec, kind |-> "none", symbols |-> <<>>,
     invoked |-> FALSE, used |-> <<>>, lost_coefficients |-> <<>>]

\* the part of recover under "if can recover": ext is _source_symbols after the
\* extension to nss slots, missing the indices of the empty slots of the window
TryRecover(rec, nss, ext, missing) ==
    Let(UsedRepairs(rec.repair_symbols, Len(missing)), LAMBDA used :
    Let(MapIdx(Len(used), LAMBDA i : used[i].data), LAMBDA repair_data :
    Let(SelectIdx(SliceTo(ext, nss), LAMBDA i : ~ext[i + 1].is_none), LAMBDA received :
    Let(MapIdx(Len(received), LAMBDA i : received[i].data), LAMBDA received_data :
    Let(MapIdx(Len(used), LAMBDA i : coding_coefficients(used[i].repair_key, nss)),
        LAMBDA coeffs :
    Let(MapIdx(Len(used),
               LAMBDA i : SelectIdx(coeffs[i], LAMBDA j : ~InList(j, missing))),
        LAMBDA received_coefficients :
    Let(MapIdx(Len(used),
               LAMBDA i : SelectIdx(coeffs[i], LAMBDA j : InList(j, missing))),
        LAMBDA lost_coefficients :
    Let(GF256PacketRecover(repair_data, received_data,
                           received_coefficients, lost_coefficients), LAMBDA res :
    Let([rec |-> [rec EXCEPT !.source_symbols = ext], kind |-> "none",
         symbols |-> <<>>, invoked |-> TRUE, used |-> used,
         lost_coefficients |-> lost_coefficients], LAMBDA call :
        IF res.raised THEN [call EXCEPT !.kind = "raised"]
        ELSE IF ~Truthy(res.packets) THEN call
        ELSE Let(Publish(ext, rec.source_symbols_start, missing, res.packets),
                 LAMBDA pub :
                 [call EXCEPT !.rec.source_symbols = pub[1],
                              !.kind = "symbols", !.symbols = pub[2]]))))))))))

\* FECRecoverer.recover: the recoverer afterwards (rec), what the call did
\* (kind: "none" for return None, "symbols" for a returned list, "raised" for an
\* exception out of GF256PacketRecover), the returned symbols, and the arguments
\* of the solver when it was invoked
recover(rec) ==
    IF Len(rec.repair_symbols) = 0 THEN NoCall(rec)
    ELSE
    Let(rec.repair_symbols[1].nss, LAMBDA nss :
    Let(ExtendTo(rec.source_symbols, nss), LAMBDA ext :
    Let(MissingIndices(SliceTo(ext, nss)), LAMBDA missing :
        IF ~CanRecover(Len(missing), Len(rec.repair_symbols))
        THEN NoCall([rec EXCEPT !.source_symbols = ext])
        ELSE TryRecover(rec, nss, ext, missing))))

(***************************************************************************)
(* QuicPacketBuilder: quic/packet_builder.py.  b is the record of the      *)
(* builder's fields.  The buffer is carried as its position (buffer_tell)  *)
(* and the bytes written after the header of the current packet (body);    *)
(* recorded is history: the (packet number, payload) pairs that             *)
(* _record_short_header_packet has recorded, in order.                     *)
(***************************************************************************)

PACKET_MAX_SIZE == 1280
PACKET_NUMBER_SEND_SIZE == 2
\* quic/packet.py
PACKET_NUMBER_MAX_SIZE == 4

\* the packet types the model builds (quic/packet.py)
PACKET_TYPE_HANDSHAKE == "HANDSHAKE"
PACKET_TYPE_ONE_RTT == "ONE_RTT"
PACKET_TYPE_REPAIR == "REPAIR"

is_long_header(packet_type) == packet_type = PACKET_TYPE_HANDSHAKE
is_repair_header(packet_type) == packet_type = PACKET_TYPE_REPAIR

\* the packet type codes that go into the first byte of a header
TypeCode(packet_type) ==
    IF packet_type = PACKET_TYPE_HANDSHAKE THEN 224
    ELSE IF packet_type = PACKET_TYPE_REPAIR THEN 80
    ELSE 64

\* the connection ids the builder is constructed with
host_cid == <<1, 2, 3, 4, 5, 6, 7, 8>>
peer_cid == <<9, 10, 11, 12, 13, 14, 15, 16>>

\* the version the builder is constructed with, as push_uint32 writes it
version == <<0, 0, 0, 1>>

\* Buffer(capacity) holds zeros; buffer is the bytes of self._buffer up to
\* its last byte that is not 0
WithoutTrailingZeros(bytes) ==
    LET RECURSIVE Last(_)
        Last(n) == IF n = 0 \/ bytes[n] # 0 THEN n ELSE Last(n - 1)
    IN  SubSeq(bytes, 1, Last(Len(bytes)))

\* Buffer.data_slice(start, start + n)
BufferRead(buffer, start, n) ==
    [i \in 1..n |-> IF start + i <= Len(buffer) THEN buffer[start + i] ELSE 0] \o <<>>

\* Buffer.seek(start) followed by Buffer.push_bytes(bytes): what was in the
\* buffer before and after these bytes stays
BufferWrite(buffer, start, bytes) ==
    WithoutTrailingZeros(
        [i \in 1..Max2(Len(buffer), start + Len(bytes)) |->
            IF i > start /\ i <= start + Len(bytes) THEN bytes[i - start]
            ELSE IF i <= Len(buffer) THEN buffer[i] ELSE 0] \o <<>>)

\* Buffer.push_uint16: the two bytes of a 16-bit value, high byte first
Uint16(v) == <<(v % 65536) \div 256, v % 256>>

\* Buffer.seek(offset) followed by Buffer.push_bytes(bytes), on the bytes of
\* a header
WriteAt(header, offset, bytes) ==
    [i \in 1..Len(header) |->
        IF i > offset /\ i <= offset + Len(bytes) THEN bytes[i - offset]
        ELSE header[i]] \o <<>>

\* CryptoPair.aead_tag_size (quic/crypto.py)
aead_tag_size == 16

\* the part of CryptoPair.encrypt_packet that lands after the header: the
\* payload under a keystream that depends on the packet number, then the tag
encrypt_payload(plain_payload, packet_number) ==
    Let((packet_number * 37 + 11) % 256, LAMBDA k :
    Let(MapIdx(Len(plain_payload), LAMBDA i : BitXor(plain_payload[i], (k + i) % 256)),
        LAMBDA cipher :
        cipher \o Repeat((k + Len(plain_payload)) % 256, aead_tag_size)))

\* the part of CryptoPair.encrypt_packet that is the header: the low bits of
\* the first byte and the packet number are masked, the bytes between them
\* are left as they are
protect_header(plain_header, packet_number) ==
    Let((packet_number * 37 + 11) % 256, LAMBDA k :
        [i \in 1..Len(plain_header) |->
            IF i = 1
            THEN BitXor(plain_header[1], k % (IF plain_header[1] >= 128 THEN 16 ELSE 32))
            ELSE IF i > Len(plain_header) - PACKET_NUMBER_SEND_SIZE
            THEN BitXor(plain_header[i], (k + i) % 256)
            ELSE plain_header[i]] \o <<>>)

\* the values of current_short_header_packet_payload: a bytes object, None, or
\* typing.Optional[bytes], the object __init__ assigns
Bytes(data) == [kind |-> "bytes", data |-> data]
NoPayload == [kind |-> "None", data |-> <<>>]
OptionalBytes == [kind |-> "typing.Optional[bytes]", data |-> <<>>]

\* self._packet: None or a QuicSentPacket
NoPacket == [is_none |-> TRUE, packet_number |-> 0, packet_type |-> PACKET_TYPE_ONE_RTT]
QuicSentPacket(packet_number, packet_type) ==
    [is_none |-> FALSE, packet_number |-> packet_number, packet_type |-> packet_type]

\* history: what _end_packet made of the last packet it did not cancel.
\* header is the header before encryption, plain the bytes after the header
\* before encryption, encrypt_packet_number the packet number handed to
\* encrypt_packet, and sent_bytes the size of the packet after encryption
NoBuilt ==
    [is_none |-> TRUE, packet_type |-> PACKET_TYPE_ONE_RTT, packet_number |-> 0,
     packet_start |-> 0, header |-> <<>>, plain |-> <<>>,
     encrypt_packet_number |-> 0, sent_bytes |-> 0]

\* QuicPacketBuilder.__init__ with the default packet numbers; header holds
\* the header bytes of the packet being built, and built is history
QuicPacketBuilder ==
    [datagrams                           |-> <<>>,
     header                              |-> <<>>,
     built                               |-> NoBuilt,
     header_size                         |-> 0,
     packet                              |-> NoPacket,
     packet_long_header                  |-> FALSE,
     packet_repair_header                |-> FALSE,
     packet_number_initial               |-> 0,
     packet_number_handshake             |-> 0,
     packet_number_onertt                |-> 0,
     packet_start                        |-> 0,
     space                               |-> "INITIAL",
     current_short_header_packet_payload |-> OptionalBytes,
     current_short_header_packet_num     |-> 0,
     buffer_tell                         |-> 0,
     body                                |-> <<>>,
     buffer_capacity                     |-> PACKET_MAX_SIZE,
     buffer                              |-> <<>>,
     recorded                            |-> <<>>]

\* QuicPacketBuilder._get_packet_number
get_packet_number(b) ==
    IF b.space = "INITIAL" THEN b.packet_number_initial
    ELSE IF b.space = "HANDSHAKE" THEN b.packet_number_handshake
    ELSE b.packet_number_onertt

\* QuicPacketBuilder._increment_packet_number
increment_packet_number(b) ==
    IF b.space = "INITIAL" THEN [b EXCEPT !.packet_number_initial = @ + 1]
    ELSE IF b.space = "HANDSHAKE" THEN [b EXCEPT !.packet_number_handshake = @ + 1]
    ELSE [b EXCEPT !.packet_number_onertt = @ + 1]

\* QuicPacketBuilder._flush_current_datagram; a datagram is kept as its size
flush_current_datagram(b) ==
    IF b.buffer_tell > 0
    THEN [b EXCEPT !.datagrams = Append(@, b.buffer_tell), !.buffer_tell = 0]
    ELSE b

\* QuicPacketBuilder._record_short_header_packet: the slice of the buffer from
\* the end of the header to the position, taken after the encryption in place
record_short_header_packet(b, encrypted_payload) ==
    [b EXCEPT !.current_short_header_packet_payload = Bytes(encrypted_payload),
              !.current_short_header_packet_num = b.packet.packet_number,
              !.recorded = Append(@, [packet_number |-> b.packet.packet_number,
                                      payload |-> encrypted_payload])]

\* the padding of _end_packet "to ensure sufficient sample size"
PaddingSize(b) ==
    PACKET_NUMBER_MAX_SIZE - PACKET_NUMBER_SEND_SIZE + b.header_size
        - (b.buffer_tell - b.packet_start)

\* the first byte of a header: the spin bit and the key phase are 0
FlagsByte(packet_type) == TypeCode(packet_type) + (PACKET_NUMBER_SEND_SIZE - 1)

\* the long header _end_packet writes
LongHeader(b, plain) ==
    <<FlagsByte(b.packet.packet_type)>> \o version
        \o <<Len(peer_cid)>> \o peer_cid \o <<Len(host_cid)>> \o host_cid
        \o Uint16(16384 + Len(plain) + PACKET_NUMBER_SEND_SIZE + aead_tag_size)
        \o Uint16(get_packet_number(b))

\* a short header that puts the packet number right after the connection id
ShortHeader_NoSkip(b) ==
    WriteAt(WriteAt(WriteAt(b.header, 0, <<FlagsByte(b.packet.packet_type)>>),
                    1, peer_cid),
            1 + Len(peer_cid), Uint16(get_packet_number(b)))

\* the short header _end_packet writes: the flags, the connection id, two
\* bytes jumped over, the packet number
ShortHeader(b) ==
    WriteAt(WriteAt(WriteAt(b.header, 0, <<FlagsByte(b.packet.packet_type)>>),
                    1, peer_cid),
            1 + Len(peer_cid) + 2, Uint16(get_packet_number(b)))

\* _end_packet for a repair packet, advancing the packet number as well
AdvancePacketNumber_Always(b) == increment_packet_number(b)

\* "do not increase packet number in case of repair packet"
AdvancePacketNumber(b) ==
    IF b.packet_repair_header THEN b ELSE increment_packet_number(b)

\* _end_packet leaving a repair packet in the datagram as well
Coalesced_AlsoRepair(b) == b.packet_long_header \/ b.packet_repair_header

\* "short header packets cannot be coallesced, we need a new datagram": the
\* packets _end_packet leaves in the current datagram
Coalesced(b) == b.packet_long_header

\* the branch of _end_packet for a packet with bytes after its header
EndNonEmptyPacket(b) ==
    Let(b.body \o Repeat(0, PaddingSize(b)), LAMBDA plain :
    Let(encrypt_payload(plain, get_packet_number(b)), LAMBDA encrypted :
    Let([b EXCEPT
            !.buffer_tell = b.packet_start + b.header_size + Len(encrypted),
            !.header = IF b.packet_long_header THEN LongHeader(b, plain)
                       ELSE ShortHeader(b)],
        LAMBDA bh :
    Let([bh EXCEPT
            !.buffer = BufferWrite(b.buffer, b.packet_start,
                                   protect_header(bh.header, get_packet_number(b))
                                       \o encrypted)],
        LAMBDA b0 :
    Let([b0 EXCEPT
            !.built = [is_none |-> FALSE,
                       packet_type |-> b.packet.packet_type,
                       packet_number |-> b.packet.packet_number,
                       packet_start |-> b.packet_start,
                       header |-> b0.header,
                       plain |-> plain,
                       encrypt_packet_number |-> get_packet_number(b),
                       sent_bytes |-> b.header_size + Len(encrypted)]],
        LAMBDA b1 :
    Let(IF Coalesced(b) THEN b1
        ELSE flush_current_datagram(
                 IF b.packet_repair_header THEN b1
                 ELSE record_short_header_packet(b1, encrypted)), LAMBDA b2 :
        AdvancePacketNumber(b2)))))))

\* the encrypted packet does not fit into Buffer(PACKET_MAX_SIZE): the
\* push_bytes of "encrypt in place" raises BufferWriteError.  A packet
\* whose frames all went through start_frame leaves room for the tag
EndPacketOverflows(b) ==
    /\ b.buffer_tell - b.packet_start > b.header_size
    /\ b.packet_start + b.header_size + Len(b.body) + Max2(0, PaddingSize(b))
           + aead_tag_size > PACKET_MAX_SIZE

\* the builder after that BufferWriteError: the padding and the header are
\* written, the position is back at the start of the packet (no byte of the
\* packet lies before it), and the packet is neither closed nor counted
OverflowedPacket(b) ==
    Let(b.body \o Repeat(0, PaddingSize(b)), LAMBDA plain :
    Let(IF b.packet_long_header THEN LongHeader(b, plain) ELSE ShortHeader(b),
        LAMBDA header :
        [b EXCEPT !.header = header,
                  !.body = <<>>,
                  !.buffer = BufferWrite(@, b.packet_start, header \o plain),
                  !.buffer_tell = b.packet_start]))

\* QuicPacketBuilder._end_packet
end_packet(b) ==
    Let(IF b.buffer_tell - b.packet_start > b.header_size
        THEN EndNonEmptyPacket(b)
        ELSE [b EXCEPT !.buffer_tell = b.packet_start], LAMBDA b1 :
        [b1 EXCEPT !.packet = NoPacket, !.body = <<>>])

\* QuicPacketBuilder.try_end_packet
try_end_packet(b) == IF b.packet.is_none THEN b ELSE end_packet(b)

\* QuicPacketBuilder.flush; the returned datagrams leave the builder
flush(b) ==
    [flush_current_datagram(try_end_packet(b)) EXCEPT !.datagrams = <<>>]

\* the header size start_packet computes
HeaderSize(packet_type) ==
    IF is_long_header(packet_type)
    THEN 11 + Len(peer_cid) + Len(host_cid)
    ELSE 3 + 2 + Len(peer_cid)

\* the epoch start_packet determines
EpochOf(packet_type) ==
    IF packet_type = PACKET_TYPE_HANDSHAKE THEN "HANDSHAKE" ELSE "ONE_RTT"

\* QuicPacketBuilder.start_packet: [raised |-> QuicPacketBuilderStop was raised,
\* b |-> the builder afterwards]
start_packet(b, packet_type) ==
    Let([try_end_packet(b) EXCEPT !.current_short_header_packet_payload = NoPayload],
        LAMBDA b1 :
    Let(IF b1.buffer_capacity - b1.buffer_tell < 128
        THEN flush_current_datagram(b1) ELSE b1, LAMBDA b2 :
    Let(b2.buffer_tell, LAMBDA packet_start :
        IF packet_start + HeaderSize(packet_type) >= b2.buffer_capacity
        THEN [raised |-> TRUE, b |-> b2]
        ELSE Let([b2 EXCEPT !.space = EpochOf(packet_type)], LAMBDA b3 :
             [raised |-> FALSE,
              b |-> [b3 EXCEPT
                  !.header_size = HeaderSize(packet_type),
                  !.packet = QuicSentPacket(get_packet_number(b3), packet_type),
                  !.packet_long_header = is_long_header(packet_type),
                  !.packet_repair_header = is_repair_header(packet_type),
                  !.packet_start = packet_start,
                  !.header = BufferRead(b3.buffer, packet_start,
                                        HeaderSize(packet_type)),
                  !.body = <<>>,
                  !.buffer_tell = packet_start + HeaderSize(packet_type)]]))))

\* start_frame followed by the bytes of the frame: [raised, b]
start_frame(b, frame) ==
    IF b.buffer_capacity - b.buffer_tell - aead_tag_size < Len(frame)
    THEN [raised |-> TRUE, b |-> b]
    ELSE [raised |-> FALSE,
          b |-> [b EXCEPT !.body = @ \o frame,
                          !.buffer = BufferWrite(@, b.buffer_tell, frame),
                          !.buffer_tell = @ + Len(frame)]]

\* QuicPacketBuilder.build_repair_packet: [raised, b]; raised when start_packet
\* raises or when the payload does not fit into the buffer
build_repair_packet(b, fss_esi, nss, repair_key, payload) ==
    Let(start_packet(flush_current_datagram(b), PACKET_TYPE_REPAIR), LAMBDA started :
        IF started.raised THEN started
        ELSE IF started.b.packet_start + started.b.header_size + Len(payload)
                    > PACKET_MAX_SIZE
        THEN [raised |-> TRUE,
              b |-> [started.b EXCEPT
                        !.packet.packet_number = fss_esi,
                        !.header = WriteAt(started.b.header,
                                           started.b.header_size - 4,
                                           <<nss % 256, repair_key % 256>>),
                        !.buffer = BufferWrite(started.b.buffer,
                                               started.b.packet_start
                                                   + started.b.header_size - 4,
                                               <<nss % 256, repair_key % 256>>)]]
        ELSE Let([started.b EXCEPT
                     !.packet.packet_number = fss_esi,
                     !.header = WriteAt(started.b.header,
                                        started.b.header_size - 4,
                                        <<nss % 256, repair_key % 256>>),
                     !.body = payload,
                     !.buffer_tell = started.b.packet_start
                                         + started.b.header_size + Len(payload)],
                 LAMBDA filled :
                 IF EndPacketOverflows(filled)
                 THEN [raised |-> TRUE, b |-> OverflowedPacket(filled)]
                 ELSE [raised |-> FALSE, b |-> end_packet(filled)]))

(***************************************************************************)
(* FECEncoder: fec/fec.py.  enc is the record of the encoder's fields;     *)
(* window_nums is history: the packet number recorded with each payload    *)
(* of _fec_window.                                                         *)
(***************************************************************************)

NoNum == [is_none |-> TRUE, num |-> 0]
Num(n) == [is_none |-> FALSE, num |-> n]

\* FECEncoder.__init__
FECEncoder ==
    [fec_window                 |-> <<>>,
     fec_window_last_packet_num |-> NoNum,
     fec_ew_size                |-> EW_SIZE,
     fec_pace                   |-> FEC_PACE,
     fec_src_cnt                |-> 0,
     fec_repair_key             |-> 0,
     window_nums                |-> <<>>]

\* what a call of try_add_repair_packet did: the encoder and the builder
\* afterwards, the repair packets it built, and whether it raised
TxResult(enc, b, emitted, raised) ==
    [enc |-> enc, b |-> b, emitted |-> emitted, raised |-> raised]

\* "while len(self._fec_window) > self._fec_ew_size: self._fec_window.pop(0)"
AdjustWindow(window, ew_size) ==
    IF Len(window) > ew_size THEN SliceFrom(window, Len(window) - ew_size) ELSE window

\* GF256LinearCombination on the encoder window raises unless every entry is
\* a bytes object
Combinable(window) == \A i \in 1..Len(window) : window[i].kind = "bytes"

\* a trigger without the pacing condition
ShouldSendRepair_NoPace(enc) == Len(enc.fec_window) = enc.fec_ew_size

\* "send repair if possible"
ShouldSendRepair(enc) ==
    Len(enc.fec_window) = enc.fec_ew_size /\ enc.fec_src_cnt >= enc.fec_pace

\* the loop "for i in range(NUM_REPAIR)" of try_add_repair_packet
SendRepairs(enc0, b0) ==
    LET RECURSIVE Go(_, _, _, _)
        Go(i, enc, b, emitted) ==
            IF i >= NUM_REPAIR THEN TxResult(enc, b, emitted, FALSE)
            ELSE
            Let(enc.fec_repair_key, LAMBDA repair_key :
            Let([enc EXCEPT !.fec_repair_key =
                                (repair_key + 1) % FEC_REPAIR_KEY_UPPER_BOUND],
                LAMBDA enc1 :
            Let(enc.fec_window_last_packet_num.num, LAMBDA fss_esi :
            Let(Len(enc.fec_window), LAMBDA nss :
                IF ~Combinable(enc.fec_window)
                THEN TxResult(enc1, b, emitted, TRUE)
                ELSE
                Let(GF256LinearCombination(
                        MapIdx(nss, LAMBDA j : enc.fec_window[j].data),
                        coding_coefficients(repair_key, nss)), LAMBDA payload :
                Let(build_repair_packet(b, fss_esi, nss, repair_key, payload),
                    LAMBDA built :
                    IF built.raised THEN TxResult(enc1, built.b, emitted, TRUE)
                    ELSE
                    Let(Append(emitted,
                               [fss_esi |-> fss_esi, nss |-> nss,
                                repair_key |-> repair_key, payload |-> payload,
                                window |-> enc.fec_window,
                                window_nums |-> enc.window_nums,
                                packet |-> built.b.built,
                                datagrams_before |-> b.datagrams,
                                datagrams |-> built.b.datagrams,
                                buffer_tell |-> built.b.buffer_tell]),
                        LAMBDA emitted1 :
                        Go(i + 1, enc1, built.b, emitted1))))))))
    IN  Go(0, enc0, b0, <<>>)

\* the test of try_add_repair_packet answering "was this packet already
\* added": always FALSE, a variant without the test
AlreadyAdded_Never(enc, b) == FALSE

\* "(self._fec_window_last_packet_num is not None) and
\*  (self._fec_window_last_packet_num == builder.current_short_header_packet_num)"
AlreadyAdded(enc, b) ==
    /\ ~enc.fec_window_last_packet_num.is_none
    /\ enc.fec_window_last_packet_num.num = b.current_short_header_packet_num

\* FECEncoder.try_add_repair_packet
try_add_repair_packet(enc, b) ==
    Let(b.current_short_header_packet_payload, LAMBDA payload :
        IF payload = NoPayload THEN TxResult(enc, b, <<>>, FALSE)
        ELSE IF AlreadyAdded(enc, b)
        THEN TxResult(enc, b, <<>>, FALSE)
        ELSE
        Let([enc EXCEPT
                !.fec_src_cnt = @ + 1,
                !.fec_window = AdjustWindow(Append(@, payload), enc.fec_ew_size),
                !.window_nums =
                    AdjustWindow(Append(@, b.current_short_header_packet_num),
                                 enc.fec_ew_size),
                !.fec_window_last_packet_num = Num(b.current_short_header_packet_num)],
            LAMBDA enc1 :
            IF ShouldSendRepair(enc1)
            THEN SendRepairs([enc1 EXCEPT !.fec_src_cnt = 0], b)
            ELSE TxResult(enc1, b, <<>>, FALSE)))

(***************************************************************************)
(* State                                                                   *)
(***************************************************************************)

VARIABLES
    \* the payload the application puts into each packet number
    orig,
    \* FECRecoverer._source_symbols_start, ._source_symbols, ._repair_symbols
    source_symbols_start, source_symbols, repair_symbols,
    \* the last call on the recoverer and what it did; the number of calls so far
    rx_last, rx_ops,
    \* the QuicPacketBuilder and the FECEncoder of the sender
    builder, encoder,
    \* the last call on the sender and what it did; the number of calls of
    \* try_add_repair_packet so far
    tx_last, tx_calls,
    \* the end-to-end scenario that is being delivered, and how far it got
    e2e,
    \* the last call of a function of gf256_op.py or tiny_mt_32.py: its
    \* arguments and what it returned
    calc,
    \* a QuicStream of the sender, the last call on it and what it did, and
    \* the frames it returned that are neither acknowledged nor declared lost
    stream

rxvars == <<source_symbols_start, source_symbols, repair_symbols, rx_last, rx_ops>>

txvars == <<builder, encoder, tx_last, tx_calls>>

vars == <<orig, rxvars, txvars, e2e, calc, stream>>

\* the recoverer as one record
Rec ==
    [source_symbols_start |-> source_symbols_start,
     source_symbols       |-> source_symbols,
     repair_symbols       |-> repair_symbols]

(***************************************************************************)
(* Bounds of the receiver model                                            *)
(***************************************************************************)

\* packet numbers 0..MaxPn arrive
MaxPn == 2
\* calls on one recoverer
MaxOps == 4

PacketNumbers == 0..MaxPn
\* the number of sources a repair symbol that arrives protects
RepairSizes == {1, 2, 3}

\* the payloads of the packets: all of one length, or of two lengths
Payloads ==
    {[pn \in PacketNumbers |-> <<17 + pn>>],
     [pn \in PacketNumbers |-> IF pn % 2 = 0 THEN <<17 + pn>> ELSE <<5, 9 + pn>>]}

\* the (fss_esi, nss) of the repair symbols that arrive: a window of packet
\* numbers from 0 on
RepairWindows ==
    {w \in PacketNumbers \X RepairSizes : w[1] - w[2] + 1 >= 0}

\* the repair symbol the encoder computes for the window ending at fss_esi
\* (try_add_repair_packet, the body of its loop)
HonestRepair(o, fss_esi, nss, repair_key) ==
    LET window == [i \in 1..nss |-> o[fss_esi - nss + i]]
        coeffs == coding_coefficients(repair_key, nss)
    IN  RepairSymbol(fss_esi, nss, repair_key, GF256LinearCombination(window, coeffs))

NoRepair == RepairSymbol(0, 0, 0, <<>>)

RxLast(op, sym, rep, r) ==
    [op |-> op, symbol |-> sym, repair |-> rep, kind |-> r.kind, symbols |-> r.symbols,
     invoked |-> r.invoked, used |-> r.used, lost_coefficients |-> r.lost_coefficients]

RxSet(rec) ==
    /\ source_symbols_start' = rec.source_symbols_start
    /\ source_symbols' = rec.source_symbols
    /\ repair_symbols' = rec.repair_symbols

\* what the model keeps of the last call on the sender; exposed is the
\* current_short_header_packet_num the builder exposed at the most recent call
\* of try_add_repair_packet, repeat tells that the call before that one
\* was shown the same number, and repairs counts the repair packets emitted
\* so far
TxLast(op, r) ==
    [op |-> op, emitted |-> r.emitted, raised |-> r.raised,
     exposed |-> NoNum, repeat |-> FALSE, repairs |-> 0]

\* a fresh builder and a fresh encoder
TxFresh ==
    /\ builder = QuicPacketBuilder
    /\ encoder = FECEncoder
    /\ tx_last = TxLast("init", TxResult(FECEncoder, QuicPacketBuilder, <<>>, FALSE))
    /\ tx_calls = 0

\* a fresh recoverer
RxFresh ==
    /\ source_symbols_start = FECRecoverer.source_symbols_start
    /\ source_symbols = FECRecoverer.source_symbols
    /\ repair_symbols = FECRecoverer.repair_symbols
    /\ rx_last = RxLast("init", None, NoRepair, NoCall(FECRecoverer))
    /\ rx_ops = 0

\* no QuicStream exists
NoStream == [op |-> "none"]

\* no function of gf256_op.py or tiny_mt_32.py was called
NoCalc == [op |-> "none", args |-> <<>>, result |-> <<>>]

\* no end-to-end scenario
NoE2E == [fss_esi |-> 0, nss |-> 0, lost |-> {}, step |-> 0]

RxInit ==
    /\ orig \in Payloads
    /\ RxFresh
    /\ TxFresh
    /\ e2e = NoE2E
    /\ calc = NoCalc
    /\ stream = NoStream

\* a short-header packet arrives: add_source_symbol(SourceSymbol(pn, payload))
AddSourceSymbol ==
    \E pn \in PacketNumbers :
        /\ rx_ops < MaxOps
        /\ \E sym \in {SourceSymbol(pn, orig[pn])} :
           \E rec \in {add_source_symbol(Rec, sym)} :
               /\ RxSet(rec)
               /\ rx_last' = RxLast("add_source_symbol", sym, NoRepair, NoCall(rec))
               /\ rx_ops' = rx_ops + 1
               /\ UNCHANGED <<orig, txvars, e2e, calc, stream>>

\* a repair packet arrives: add_repair_symbol(RepairSymbol(pn, nss, key, payload))
AddRepairSymbol ==
    \E w \in RepairWindows, key \in RepairKeys :
        /\ rx_ops < MaxOps
        /\ \E sym \in {HonestRepair(orig, w[1], w[2], key)} :
           \E rec \in {add_repair_symbol(Rec, sym)} :
               /\ RxSet(rec)
               /\ rx_last' = RxLast("add_repair_symbol", None, sym, NoCall(rec))
               /\ rx_ops' = rx_ops + 1
               /\ UNCHANGED <<orig, txvars, e2e, calc, stream>>

\* recover()
Recover ==
    /\ rx_ops < MaxOps
    /\ \E r \in {recover(Rec)} :
           /\ RxSet(r.rec)
           /\ rx_last' = RxLast("recover", None, NoRepair, r)
           /\ rx_ops' = rx_ops + 1
           /\ UNCHANGED <<orig, txvars, e2e, calc, stream>>

RecvNext == AddSourceSymbol \/ AddRepairSymbol \/ Recover

\* any sequence of calls on one recoverer
SpecRecv == RxInit /\ [][RecvNext]_vars

(***************************************************************************)
(* Properties of the recoverer                                             *)
(***************************************************************************)

\* the stored source symbols of a list of slots
Stored(lst) == {lst[i] : i \in {j \in 1..Len(lst) : ~lst[j].is_none}}

\* the number of sources missing in the first nss slots, nss that of the first
\* buffered repair symbol; a slot beyond the end of the list is missing
MissingBefore ==
    Cardinality({i \in 1..repair_symbols[1].nss :
                    i > Len(source_symbols) \/ source_symbols[i].is_none})

\* the step is a call of the operation op
Called(op) == rx_last'.op = op

\* C4: every stored source symbol sits at the index packet_number -
\* _source_symbols_start, after any sequence of calls
C4_IndexingInvariant ==
    \A i \in 1..Len(source_symbols) :
        ~source_symbols[i].is_none =>
            source_symbols[i].packet_number = source_symbols_start + (i - 1)

\* C5: a second add_source_symbol with the same packet number, right after the
\* first, leaves the length of _source_symbols and every other slot unchanged
C5_IdempotentSourceAdd ==
    [][(/\ rx_last.op = "add_source_symbol"
        /\ Called("add_source_symbol")
        /\ rx_last'.symbol.packet_number = rx_last.symbol.packet_number)
       => /\ Len(source_symbols') = Len(source_symbols)
          /\ \A i \in 1..Len(source_symbols) :
                 i - 1 # rx_last.symbol.packet_number - source_symbols_start
                     => source_symbols'[i] = source_symbols[i]]_vars

\* C6: all buffered repair symbols have the same (fss_esi, nss), after any
\* sequence of add_repair_symbol calls
C6_RepairsShareWindow ==
    \A i, j \in 1..Len(repair_symbols) :
        /\ repair_symbols[i].fss_esi = repair_symbols[j].fss_esi
        /\ repair_symbols[i].nss = repair_symbols[j].nss

\* C7: add_repair_symbol with a repair whose fss_esi is greater than that of
\* the stored repairs leaves only the new repair buffered, moves the start to
\* fss_esi-nss+1, keeps no source symbol below the new start and keeps every
\* source symbol at or above it
C7_WindowEviction ==
    [][(/\ Called("add_repair_symbol")
        /\ Len(repair_symbols) > 0
        /\ \A i \in 1..Len(repair_symbols) :
               rx_last'.repair.fss_esi > repair_symbols[i].fss_esi)
       => LET new_start == rx_last'.repair.fss_esi - rx_last'.repair.nss + 1
          IN  /\ repair_symbols' = <<rx_last'.repair>>
              /\ source_symbols_start' = new_start
              /\ \A sym \in Stored(source_symbols') : sym.packet_number >= new_start
              /\ \A sym \in Stored(source_symbols) :
                     sym.packet_number >= new_start
                         => sym \in Stored(source_symbols')]_vars

\* the step is a recover() with more sources missing in the first nss slots
\* than repair symbols buffered
OverLoss ==
    /\ Called("recover")
    /\ Len(repair_symbols) > 0
    /\ MissingBefore > Len(repair_symbols)

\* C8 as stated: on over-loss recover() returns nothing and leaves
\* _source_symbols_start, _source_symbols (contents and length) and
\* _repair_symbols unchanged
C8_GiveUpMutatesNothing ==
    [][OverLoss
       => /\ rx_last'.kind = "none"
          /\ source_symbols_start' = source_symbols_start
          /\ repair_symbols' = repair_symbols
          /\ source_symbols' = source_symbols]_vars

\* C8 amended: on over-loss recover() returns nothing without invoking the
\* solver, leaves _source_symbols_start and _repair_symbols unchanged, and
\* changes _source_symbols only by appending None up to the length nss
C8_GiveUpOnlyPads ==
    [][OverLoss
       => /\ rx_last'.kind = "none"
          /\ ~rx_last'.invoked
          /\ source_symbols_start' = source_symbols_start
          /\ repair_symbols' = repair_symbols
          /\ Len(source_symbols') = Max2(Len(source_symbols), repair_symbols[1].nss)
          /\ \A i \in 1..Len(source_symbols') :
                 source_symbols'[i] =
                     (IF i <= Len(source_symbols) THEN source_symbols[i] ELSE None)]_vars

\* C8 witness: a recover() gave up on over-loss and has padded the list, which
\* now ends with an empty slot at index nss
C8_Witness ==
    /\ rx_last.op = "recover"
    /\ rx_last.kind = "none"
    /\ Len(repair_symbols) > 0
    /\ MissingBefore > Len(repair_symbols)
    /\ Len(source_symbols) = repair_symbols[1].nss
    /\ source_symbols[Len(source_symbols)].is_none

\* C9: recover() returns nothing without a buffered repair symbol or without a
\* missing source in the first nss slots; it invokes the solver only when
\* 0 < #missing <= #repairs, with the first #missing buffered repair symbols,
\* one row per missing source
C9_SolverInvocation ==
    [][Called("recover")
       => /\ (Len(repair_symbols) = 0 \/ MissingBefore = 0)
                 => (rx_last'.kind = "none" /\ ~rx_last'.invoked)
          /\ rx_last'.invoked
                 => /\ Len(repair_symbols) > 0
                    /\ 0 < MissingBefore
                    /\ MissingBefore <= Len(repair_symbols)
                    /\ rx_last'.used = SubSeq(repair_symbols, 1, MissingBefore)
                    /\ Len(rx_last'.lost_coefficients) = MissingBefore]_vars

\* C9 witness: recover() invoked the solver with fewer repair symbols than
\* are buffered
C9_Witness ==
    /\ rx_last.op = "recover"
    /\ rx_last.invoked
    /\ Len(rx_last.used) < Len(repair_symbols)

\* the matrix m without its first row and its column j
Minor(m, j) ==
    [r \in 1..(Len(m) - 1) |->
        [c \in 1..(Len(m) - 1) |-> m[r + 1][IF c < j THEN c ELSE c + 1]]]

\* the determinant of a square matrix over GF(256), by expansion along the
\* first row
RECURSIVE Det(_)
Det(m) ==
    IF Len(m) = 0 THEN 1
    ELSE LET RECURSIVE Sum(_)
             Sum(j) == IF j = 0 THEN 0
                       ELSE GFAdd(Sum(j - 1), GFMul(m[1][j], Det(Minor(m, j))))
         IN  Sum(Len(m))

Singular(m) == Det(m) = 0

\* C10: when the lost-coefficient matrix recover() builds is singular,
\* recover() returns no symbols, writes no symbol into _source_symbols and
\* keeps the buffered repair symbols
C10_SingularSystemAbandoned ==
    [][(/\ Called("recover")
        /\ rx_last'.invoked
        /\ Singular(rx_last'.lost_coefficients))
       => /\ rx_last'.kind # "symbols"
          /\ Stored(source_symbols') \subseteq Stored(source_symbols)
          /\ repair_symbols' = repair_symbols]_vars

\* C12: recover() ends by returning symbols or nothing and never raises, in
\* every reachable state of the recoverer, also when every source of the
\* first nss slots is missing and nss repair symbols are buffered
C12_RecoverNeverRaises ==
    rx_last.op = "recover" => rx_last.kind \in {"none", "symbols"}

(***************************************************************************)
(* The recoverer fed from the wire: the fields of a repair symbol are      *)
(* whatever the repair packet says                                         *)
(***************************************************************************)

\* the nss a repair packet may carry: none, a few, more than the window holds
WireSizes == {0, 1, 2, EW_SIZE + 1}

\* the payload of a repair packet from the wire
WireData == <<7>>

\* a repair packet arrives: add_repair_symbol(RepairSymbol(fss_esi, nss, 0, data))
AddWireRepair ==
    \E fss_esi \in PacketNumbers, nss \in WireSizes :
        /\ rx_ops < MaxOps
        /\ \E sym \in {RepairSymbol(fss_esi, nss, 0, WireData)} :
           \E rec \in {add_repair_symbol(Rec, sym)} :
               /\ RxSet(rec)
               /\ rx_last' = RxLast("add_repair_symbol", None, sym, NoCall(rec))
               /\ rx_ops' = rx_ops + 1
               /\ UNCHANGED <<orig, txvars, e2e, calc, stream>>

WireNext == AddSourceSymbol \/ AddWireRepair \/ Recover

SpecWire == RxInit /\ [][WireNext]_vars

\* the repair symbol is malformed
Malformed(symbol) ==
    \/ symbol.nss = 0
    \/ symbol.nss > EW_SIZE
    \/ symbol.fss_esi - symbol.nss + 1 < 0

\* C11: add_repair_symbol with a malformed repair symbol (nss = 0, nss >
\* EW_SIZE, or fss_esi - nss + 1 < 0) leaves _repair_symbols, _source_symbols
\* and _source_symbols_start unchanged
C11_MalformedRepairDropped ==
    [][(Called("add_repair_symbol") /\ Malformed(rx_last'.repair))
       => UNCHANGED <<repair_symbols, source_symbols, source_symbols_start>>]_vars

(***************************************************************************)
(* End to end: the survivors of a protected window arrive in order, then   *)
(* the two repair symbols of the window, then recover() is called          *)
(***************************************************************************)

\* the protected windows end at a packet number up to MaxLast
MaxLast == 5

\* the scenarios: a window fss_esi-nss+1 .. fss_esi and the packets of it that
\* are lost, at most as many as there are repair symbols
Scenarios ==
    {[fss_esi |-> f, nss |-> n, lost |-> l, step |-> 0] :
        f \in 0..MaxLast, n \in 1..EW_SIZE, l \in SUBSET (0..MaxLast)} 

E2EWindow(sc) == (sc.fss_esi - sc.nss + 1)..sc.fss_esi

\* the elements of a set of numbers in increasing order
RECURSIVE Sorted(_)
Sorted(S) ==
    IF S = {} THEN <<>>
    ELSE LET m == CHOOSE x \in S : \A y \in S : x <= y
         IN  <<m>> \o Sorted(S \ {m})

Survivors(sc) == Sorted(E2EWindow(sc) \ sc.lost)

E2EInit ==
    /\ orig \in {[pn \in 0..MaxLast |-> <<17 + pn>>],
                 [pn \in 0..MaxLast |-> IF pn % 2 = 0 THEN <<17 + pn>> ELSE <<5, 9 + pn>>]}
    /\ e2e \in {sc \in Scenarios :
                   /\ sc.fss_esi - sc.nss + 1 >= 0
                   /\ sc.lost \subseteq E2EWindow(sc)
                   /\ Cardinality(sc.lost) <= NUM_REPAIR}
    /\ RxFresh
    /\ TxFresh
    /\ calc = NoCalc
    /\ stream = NoStream

\* the next surviving source symbol arrives
DeliverSource ==
    /\ e2e.step < Len(Survivors(e2e))
    /\ \E pn \in {Survivors(e2e)[e2e.step + 1]} :
       \E sym \in {SourceSymbol(pn, orig[pn])} :
       \E rec \in {add_source_symbol(Rec, sym)} :
           /\ RxSet(rec)
           /\ rx_last' = RxLast("add_source_symbol", sym, NoRepair, NoCall(rec))
           /\ rx_ops' = rx_ops + 1
           /\ e2e' = [e2e EXCEPT !.step = @ + 1]
           /\ UNCHANGED <<orig, txvars, calc, stream>>

\* the next repair symbol of the window arrives; the encoder gave the repair
\* symbols of the batch the keys 0 .. NUM_REPAIR-1
DeliverRepair ==
    /\ e2e.step >= Len(Survivors(e2e))
    /\ e2e.step < Len(Survivors(e2e)) + NUM_REPAIR
    /\ \E sym \in {HonestRepair(orig, e2e.fss_esi, e2e.nss,
                                e2e.step - Len(Survivors(e2e)))} :
       \E rec \in {add_repair_symbol(Rec, sym)} :
           /\ RxSet(rec)
           /\ rx_last' = RxLast("add_repair_symbol", None, sym, NoCall(rec))
           /\ rx_ops' = rx_ops + 1
           /\ e2e' = [e2e EXCEPT !.step = @ + 1]
           /\ UNCHANGED <<orig, txvars, calc, stream>>

\* recover() after the last repair symbol
RecoverLost ==
    /\ e2e.step = Len(Survivors(e2e)) + NUM_REPAIR
    /\ \E r \in {recover(Rec)} :
           /\ RxSet(r.rec)
           /\ rx_last' = RxLast("recover", None, NoRepair, r)
           /\ rx_ops' = rx_ops + 1
           /\ e2e' = [e2e EXCEPT !.step = @ + 1]
           /\ UNCHANGED <<orig, txvars, calc, stream>>

E2ENext == DeliverSource \/ DeliverRepair \/ RecoverLost

SpecE2E == E2EInit /\ [][E2ENext]_vars

\* C3: after the survivors of a protected window and its repair symbols R1, R2
\* were delivered in order, with no more sources lost than there are repairs,
\* recover() returns one SourceSymbol per lost packet, with the packet number
\* and the original payload of that packet
C3_EndToEndRecovery ==
    (rx_last.op = "recover" /\ e2e.lost # {})
        => /\ rx_last.kind = "symbols"
           /\ rx_last.symbols =
                  [i \in 1..Cardinality(e2e.lost) |->
                      SourceSymbol(Sorted(e2e.lost)[i], orig[Sorted(e2e.lost)[i]])]

(***************************************************************************)
(* The sender: a QuicPacketBuilder and the FECEncoder that watches it      *)
(***************************************************************************)

\* data packets 0..MaxPackets-1 are built
MaxPackets == 6
\* handshake packets 0..MaxHandshake-1 are built
MaxHandshake == 1
\* calls of try_add_repair_packet in an undisciplined run
MaxCalls == 5

\* the payloads of the data packets: one byte each, or one or two bytes
TxPayloads ==
    {[pn \in 0..MaxPackets |-> <<17 + pn>>],
     [pn \in 0..MaxPackets |-> IF pn % 2 = 0 THEN <<17 + pn>> ELSE <<5, 9 + pn>>]}

\* the frame written into a handshake packet
HandshakeFrame == <<6, 0>>

TxInit ==
    /\ orig \in TxPayloads
    /\ RxFresh
    /\ TxFresh
    /\ e2e = NoE2E
    /\ calc = NoCalc
    /\ stream = NoStream

\* the call returned without touching the encoder
BuilderCall(op) ==
    [TxLast(op, TxResult(encoder, builder, <<>>, FALSE))
        EXCEPT !.exposed = tx_last.exposed, !.repairs = tx_last.repairs]

\* a call of try_add_repair_packet with result r
EncoderCall(r) ==
    [TxLast("try_add_repair_packet", r) EXCEPT
        !.exposed = Num(builder.current_short_header_packet_num),
        !.repeat = (tx_last.exposed = Num(builder.current_short_header_packet_num)),
        !.repairs = tx_last.repairs + Len(r.emitted)]

\* builder.start_packet(packet_type, crypto)
StartPacket ==
    \E packet_type \in {PACKET_TYPE_ONE_RTT, PACKET_TYPE_HANDSHAKE} :
        /\ IF packet_type = PACKET_TYPE_ONE_RTT
           THEN builder.packet_number_onertt
                    + (IF builder.packet.is_none THEN 0 ELSE 1) < MaxPackets
           ELSE builder.packet_number_handshake
                    + (IF builder.packet.is_none THEN 0 ELSE 1) < MaxHandshake
        /\ \E r \in {start_packet(builder, packet_type)} :
               /\ builder' = r.b
               /\ tx_last' = [BuilderCall("start_packet") EXCEPT !.raised = r.raised]
               /\ UNCHANGED <<orig, rxvars, encoder, tx_calls, e2e, calc, stream>>

\* builder.start_frame(...) and the bytes of the frame, into an open packet
\* that has no frame yet: the position is right after its header
WriteFrame ==
    /\ ~builder.packet.is_none
    /\ builder.buffer_tell = builder.packet_start + builder.header_size
    /\ \E frame \in {IF builder.packet_long_header THEN HandshakeFrame
                     ELSE orig[builder.packet.packet_number]} :
       \E r \in {start_frame(builder, frame)} :
           /\ builder' = r.b
           /\ tx_last' = [BuilderCall("start_frame") EXCEPT !.raised = r.raised]
           /\ UNCHANGED <<orig, rxvars, encoder, tx_calls, e2e, calc, stream>>

\* builder.try_end_packet()
TryEndPacket ==
    /\ builder' = try_end_packet(builder)
    /\ tx_last' = BuilderCall("try_end_packet")
    /\ UNCHANGED <<orig, rxvars, encoder, tx_calls, e2e, calc, stream>>

\* builder.flush()
Flush ==
    /\ builder' = flush(builder)
    /\ tx_last' = BuilderCall("flush")
    /\ UNCHANGED <<orig, rxvars, encoder, tx_calls, e2e, calc, stream>>

\* encoder.try_add_repair_packet(builder, crypto)
TryAddRepairPacket ==
    /\ tx_calls < MaxCalls
    /\ \E r \in {try_add_repair_packet(encoder, builder)} :
           /\ encoder' = r.enc
           /\ builder' = r.b
           /\ tx_last' = EncoderCall(r)
           /\ tx_calls' = tx_calls + 1
           /\ UNCHANGED <<orig, rxvars, e2e, calc, stream>>

SendNext == StartPacket \/ WriteFrame \/ TryEndPacket \/ Flush \/ TryAddRepairPacket

\* any sequence of builder operations and try_add_repair_packet calls
SpecSend == TxInit /\ [][SendNext]_vars

(***************************************************************************)
(* The paced sender: every data packet is written, finalised with          *)
(* try_end_packet and then shown to the encoder once, before the next      *)
(* packet is started                                                       *)
(***************************************************************************)

\* data packets 0..MaxPacePackets-1 are built by the paced sender
MaxPacePackets == 9

PaceInit ==
    /\ orig \in {[pn \in 0..MaxPacePackets |-> <<17 + pn>>],
                 [pn \in 0..MaxPacePackets |->
                     IF pn % 2 = 0 THEN <<17 + pn>> ELSE <<5, 9 + pn>>]}
    /\ RxFresh
    /\ TxFresh
    /\ e2e = NoE2E
    /\ calc = NoCalc
    /\ stream = NoStream

\* a finalised data packet is recorded that the encoder has not seen
Pending ==
    /\ builder.current_short_header_packet_payload.kind = "bytes"
    /\ \/ encoder.fec_window_last_packet_num.is_none
       \/ encoder.fec_window_last_packet_num.num
              # builder.current_short_header_packet_num

PaceStartPacket ==
    \E packet_type \in {PACKET_TYPE_ONE_RTT, PACKET_TYPE_HANDSHAKE} :
        /\ builder.packet.is_none
        /\ ~Pending
        /\ IF packet_type = PACKET_TYPE_ONE_RTT
           THEN builder.packet_number_onertt < MaxPacePackets
           ELSE builder.packet_number_handshake < MaxHandshake
        /\ \E r \in {start_packet(builder, packet_type)} :
               /\ builder' = r.b
               /\ tx_last' = [BuilderCall("start_packet") EXCEPT !.raised = r.raised]
               /\ UNCHANGED <<orig, rxvars, encoder, tx_calls, e2e, calc, stream>>

PaceEndPacket ==
    /\ ~builder.packet.is_none
    /\ builder.body # <<>>
    /\ TryEndPacket

PaceFlush ==
    /\ builder.packet.is_none
    /\ Flush

PaceTryAddRepairPacket ==
    /\ builder.packet.is_none
    /\ Pending
    /\ \E r \in {try_add_repair_packet(encoder, builder)} :
           /\ encoder' = r.enc
           /\ builder' = r.b
           /\ tx_last' = EncoderCall(r)
           /\ tx_calls' = tx_calls + 1
           /\ UNCHANGED <<orig, rxvars, e2e, calc, stream>>

PaceNext ==
    \/ PaceStartPacket
    \/ WriteFrame
    \/ PaceEndPacket
    \/ PaceFlush
    \/ PaceTryAddRepairPacket

SpecPace == PaceInit /\ [][PaceNext]_vars

\* among the first MaxEarlyCalls calls of try_add_repair_packet, some may come
\* when the builder has no new data packet for the encoder
MaxEarlyCalls == 3

\* the paced sender that also calls try_add_repair_packet at other times:
\* before the first packet is built, while a packet is being built, or a
\* second time after the same packet
EarlyTryAddRepairPacket ==
    /\ ~Pending
    /\ tx_calls < MaxEarlyCalls
    /\ \E r \in {try_add_repair_packet(encoder, builder)} :
           /\ encoder' = r.enc
           /\ builder' = r.b
           /\ tx_last' = EncoderCall(r)
           /\ tx_calls' = tx_calls + 1
           /\ UNCHANGED <<orig, rxvars, e2e, calc, stream>>

EarlyNext == PaceNext \/ EarlyTryAddRepairPacket

SpecEarly == PaceInit /\ [][EarlyNext]_vars

C2_RepairDescribesWindow ==
    \A k \in 1..Len(tx_last.emitted) :
        LET e == tx_last.emitted[k]
        IN  /\ e.nss = Len(e.window)
            /\ e.fss_esi = e.window_nums[Len(e.window_nums)]
            /\ \A i \in 1..e.nss :
                   \E j \in 1..Len(builder.recorded) :
                       /\ builder.recorded[j].packet_number = e.fss_esi - e.nss + i
                       /\ e.window[i] = Bytes(builder.recorded[j].payload)


(***************************************************************************)
(* Properties of repeated try_add_repair_packet calls                      *)
(***************************************************************************)

\* the step is a call of try_add_repair_packet
TryAddCalled == tx_calls' = tx_calls + 1

\* the call left the encoder's fields alone and built no repair packet
EncoderUntouched ==
    /\ encoder'.fec_window = encoder.fec_window
    /\ encoder'.fec_src_cnt = encoder.fec_src_cnt
    /\ encoder'.fec_window_last_packet_num = encoder.fec_window_last_packet_num
    /\ encoder'.fec_repair_key = encoder.fec_repair_key
    /\ tx_last'.emitted = <<>>
    /\ builder' = builder

\* C13 as stated: a call of try_add_repair_packet made while the builder
\* exposes the current_short_header_packet_num that the call before it saw
\* leaves the window, src_cnt, last_packet_num and repair_key unchanged and
\* emits no repair packet
C13_NoDoubleEmission ==
    [][(TryAddCalled
            /\ tx_last.exposed = Num(builder.current_short_header_packet_num))
       => EncoderUntouched]_vars

\* C13 amended: a call of try_add_repair_packet made while the builder
\* exposes the current_short_header_packet_num under which an earlier call
\* appended a payload leaves the window, src_cnt, last_packet_num and
\* repair_key unchanged and emits no repair packet
C13_NoDoubleAppend ==
    [][(TryAddCalled /\ InList(builder.current_short_header_packet_num,
                               encoder.window_nums))
       => EncoderUntouched]_vars

\* C13 witness: packets 0 and 1 were appended, and packet 1 has been shown
\* to try_add_repair_packet a second time while it was still recorded
C13_Witness ==
    /\ tx_last.op = "try_add_repair_packet"
    /\ tx_last.repeat
    /\ tx_last.exposed = Num(1)
    /\ encoder.window_nums = <<0, 1>>
    /\ encoder.fec_src_cnt = 2
    /\ builder.current_short_header_packet_payload.kind = "bytes"


\* no short-header data packet payload is recorded: no packet was ever built,
\* or the last packet built was a repair packet or a long-header packet
NoDataPacketRecorded ==
    \/ builder.built.is_none
    \/ builder.built.packet_type \in {PACKET_TYPE_REPAIR, PACKET_TYPE_HANDSHAKE}

\* C14: try_add_repair_packet is a no-op (window, src_cnt, last_packet_num and
\* repair_key unchanged, nothing emitted) whenever no short-header data packet
\* payload is recorded: on a builder on which no packet was ever built, and
\* whenever the last finalised packet was a repair or a long-header packet
C14_NoPayloadNoOp ==
    [][(TryAddCalled /\ NoDataPacketRecorded) => EncoderUntouched]_vars


\* C15: the repair_key counter always lies in 0..255, and the k-th repair
\* packet ever emitted by an encoder (k = 0, 1, 2, ...) carries
\* repair_key = k mod 256
C15_RepairKeys ==
    /\ encoder.fec_repair_key \in 0..(FEC_REPAIR_KEY_UPPER_BOUND - 1)
    /\ \A j \in 1..Len(tx_last.emitted) :
           tx_last.emitted[j].repair_key =
               (tx_last.repairs - Len(tx_last.emitted) + j - 1)
                   % FEC_REPAIR_KEY_UPPER_BOUND


(***************************************************************************)
(* Properties of the repair packets the builder builds for the encoder     *)
(***************************************************************************)

\* the packet-number field of a header: its last two bytes
PacketNumberField(header) == SubSeq(header, Len(header) - 1, Len(header))

\* C16: the packet-number field written into the header of a repair packet
\* built by build_repair_packet(crypto, fss_esi, nss, repair_key, payload),
\* and the packet number used to encrypt it, equal fss_esi (mod 2^16 for the
\* header field), for every fss_esi passed by the encoder after a data packet
\* was finalised
C16_RepairPacketNumber ==
    \A j \in 1..Len(tx_last.emitted) :
        /\ PacketNumberField(tx_last.emitted[j].packet.header)
               = Uint16(tx_last.emitted[j].fss_esi)
        /\ tx_last.emitted[j].packet.encrypt_packet_number
               = tx_last.emitted[j].fss_esi


\* C17: building a repair packet does not advance any packet-number counter:
\* _packet_number_initial, _packet_number_handshake and _packet_number_onertt
\* have the same values after the repair packets of a call were built as
\* before
C17_RepairKeepsPacketNumbers ==
    [][(TryAddCalled /\ tx_last'.emitted # <<>>)
       => /\ builder'.packet_number_initial = builder.packet_number_initial
          /\ builder'.packet_number_handshake = builder.packet_number_handshake
          /\ builder'.packet_number_onertt = builder.packet_number_onertt]_vars

\* C17 witness: two repair packets were built after a handshake packet and
\* the data packets up to fss_esi, and the next data packet gets fss_esi + 1
C17_Witness ==
    /\ tx_last.op = "try_add_repair_packet"
    /\ Len(tx_last.emitted) = NUM_REPAIR
    /\ builder.built.packet_type = PACKET_TYPE_REPAIR
    /\ builder.packet_number_handshake = 1
    /\ builder.packet_number_onertt = tx_last.emitted[1].fss_esi + 1


\* C18: every repair packet built by build_repair_packet ends up alone in its
\* own datagram: the datagram appended to _datagrams for it starts at buffer
\* offset 0 with the repair packet's header, contains no bytes of any other
\* packet, and is flushed before any later packet is started
C18_RepairAloneInDatagram ==
    \A j \in 1..Len(tx_last.emitted) :
        LET e == tx_last.emitted[j]
        IN  /\ e.packet.packet_type = PACKET_TYPE_REPAIR
            /\ e.packet.packet_start = 0
            /\ e.datagrams = Append(e.datagrams_before, e.packet.sent_bytes)
            /\ e.buffer_tell = 0

\* C18 witness: a call has built two repair packets, each in its own datagram,
\* after a handshake packet and data packets
C18_Witness ==
    /\ tx_last.op = "try_add_repair_packet"
    /\ Len(tx_last.emitted) = NUM_REPAIR
    /\ builder.packet_number_handshake = 1
    /\ Len(builder.datagrams) >= NUM_REPAIR
    /\ builder.datagrams[Len(builder.datagrams)] = builder.built.sent_bytes


\* the byte at an offset from the packet start, in the header of a packet
HeaderByte(packet, offset) == packet.header[offset + 1]

\* C19: in the plaintext header of every repair packet, the byte at offset
\* 1+|peer_cid| from the packet start equals nss and the byte at offset
\* 2+|peer_cid| equals repair_key: the flags, the connection id and the
\* packet number that _end_packet writes do not overwrite these two bytes
C19_RepairHeaderLayout ==
    \A j \in 1..Len(tx_last.emitted) :
        /\ HeaderByte(tx_last.emitted[j].packet, 1 + Len(peer_cid))
               = tx_last.emitted[j].nss
        /\ HeaderByte(tx_last.emitted[j].packet, 2 + Len(peer_cid))
               = tx_last.emitted[j].repair_key

\* C19 witness: the second batch has been built, its second repair packet
\* carries nss 5 and repair_key 3 in a header that _end_packet completed
C19_Witness ==
    /\ tx_last.op = "try_add_repair_packet"
    /\ Len(tx_last.emitted) = NUM_REPAIR
    /\ tx_last.emitted[NUM_REPAIR].nss = EW_SIZE
    /\ tx_last.emitted[NUM_REPAIR].repair_key = 3
    /\ HeaderByte(tx_last.emitted[NUM_REPAIR].packet, 0) = FlagsByte(PACKET_TYPE_REPAIR)
    /\ HeaderByte(tx_last.emitted[NUM_REPAIR].packet, 2 + Len(peer_cid)) = 3


\* C20: the payload the builder records for the encoder after finalising a
\* short-header data packet is the plaintext between the header and the AEAD
\* tag: its length is packet_size - header_size (padding included, tag
\* excluded) and its bytes are the bytes that were in the buffer before
\* encryption
C20_RecordedPayloadIsPlaintext ==
    (/\ builder.current_short_header_packet_payload.kind = "bytes"
     /\ ~builder.built.is_none
     /\ builder.built.packet_type = PACKET_TYPE_ONE_RTT)
    => /\ Len(builder.current_short_header_packet_payload.data)
              = Len(builder.built.plain)
       /\ builder.current_short_header_packet_payload.data = builder.built.plain


(***************************************************************************)
(* Properties of the receiver window                                       *)
(***************************************************************************)

\* C27: after any sequence of add_source_symbol, add_repair_symbol and recover
\* calls on a fresh FECRecoverer, every buffered repair symbol r satisfies
\* r.fss_esi - r.nss + 1 = _source_symbols_start, the first repair ever
\* received included
C27_RepairsAlignedWithWindow ==
    \A i \in 1..Len(repair_symbols) :
        repair_symbols[i].fss_esi - repair_symbols[i].nss + 1 = source_symbols_start

\* C28: over any sequence of add_repair_symbol calls, _source_symbols_start
\* never decreases, and a window shift removes exactly the first
\* new_start - old_start slots of _source_symbols
C28_WindowMovesForward ==
    [][Called("add_repair_symbol")
       => /\ source_symbols_start' >= source_symbols_start
          /\ source_symbols' =
                 SliceFrom(source_symbols,
                           source_symbols_start' - source_symbols_start)]_vars


(***************************************************************************)
(* The functions of gf256_op.py called on their own: the arguments are     *)
(* drawn in the initial state and every action is one call                 *)
(***************************************************************************)

\* the receiver and the sender are not used
Unused ==
    /\ orig = [pn \in {} |-> <<>>]
    /\ RxFresh
    /\ TxFresh
    /\ e2e = NoE2E
    /\ stream = NoStream

\* one call: calc becomes the call, nothing else changes
Call(op, result) ==
    /\ calc.op = "none"
    /\ calc' = [op |-> op, args |-> calc.args, result |-> result]
    /\ UNCHANGED <<orig, rxvars, txvars, e2e, stream>>

\* the field elements a division is tried on
FieldElements == 0..255

\* the arguments a and b of one operation on two GF256Numbers
FieldInit ==
    /\ calc \in {[op |-> "none", args |-> <<a, b>>, result |-> <<>>] :
                     a \in FieldElements, b \in FieldElements}
    /\ Unused

\* GF256Number(a) * GF256Number(b)
Multiply == Call("mul", [raised |-> FALSE, n |-> GFMul(calc.args[1], calc.args[2])])

\* GF256Number(a) / GF256Number(b): the table lookups raise nothing
Divide == Call("truediv", [raised |-> FALSE, n |-> GFDiv(calc.args[1], calc.args[2])])

FieldNext == Multiply \/ Divide

SpecField == FieldInit /\ [][FieldNext]_vars

\* C25: GF256Number(a) / GF256Number(0) raises an error instead of returning a
\* field element
C25_DivisionByZeroRaises ==
    (calc.op = "truediv" /\ calc.args[2] = 0) => calc.result.raised

(***************************************************************************)
(* gaussElimination one iteration of its while loop at a time               *)
(***************************************************************************)

\* the entries of the systems gaussElimination is stepped on
GaussEntries == 0..3

\* the entries of the 3 x 3 systems
GaussEntries3 == 0..2

\* the m x m systems with the entries of E; the constant of row i is <<i>>
SquareSystems(m, E) ==
    {[eqs |-> eqs, cons |-> [i \in 1..m |-> <<i>>]] :
         eqs \in [1..m -> [1..m -> E]]}

\* a system of 2 or 3 equations, as GF256PacketRecover has built it
GaussInit ==
    /\ calc \in {[op |-> "gaussElimination", args |-> sys, result |-> GaussStart(sys)] :
                     sys \in SquareSystems(2, GaussEntries)
                             \cup SquareSystems(3, GaussEntries3)}
    /\ Unused

\* the while loop of gaussElimination runs once more
GaussIterate ==
    /\ calc.op = "gaussElimination"
    /\ GaussRunning(calc.result, Len(calc.args.eqs))
    /\ calc' = [calc EXCEPT !.result = GaussStep(@)]
    /\ UNCHANGED <<orig, rxvars, txvars, e2e, stream>>

GaussNext == GaussIterate

SpecGauss == GaussInit /\ [][GaussNext]_vars

\* the iterations of the while loop end in what gaussElimination returns
GaussStepsAgree ==
    (calc.op = "gaussElimination" /\ ~GaussRunning(calc.result, Len(calc.args.eqs)))
        => calc.result.sys = gaussElimination(calc.args, Len(calc.args.eqs))

\* C29: at every pivot step for column c starting from row r, the row swapped
\* into position r has its index in [r, m) and a maximal entry in column c
\* among the rows r..m-1, and no row with an index below r is moved
C29_PivotSelection ==
    [][(calc'.result # calc.result /\ calc'.result.swapped)
       => LET r     == calc.result.r
              c     == calc.result.c
              eqs   == calc.result.sys.eqs
              m     == Len(eqs)
              i_max == calc'.result.i_max
          IN  /\ i_max >= r
              /\ i_max < m
              /\ \A i \in r..(m - 1) : eqs[i + 1][c + 1] <= eqs[i_max + 1][c + 1]
              /\ \A i \in 0..(r - 1) :
                     /\ calc'.result.sys.eqs[i + 1] = eqs[i + 1]
                     /\ calc'.result.sys.cons[i + 1] = calc.result.sys.cons[i + 1]]_vars

(***************************************************************************)
(* GF256LinearCombination and GF256PacketRecover called on three payloads  *)
(* a, b, c and the coefficient rows p, q, as the self-test of gf256_op.py  *)
(* calls them                                                              *)
(***************************************************************************)

\* the payloads: one byte or two bytes long
SolverPayloads == {<<9>>, <<3, 200>>, <<97, 98>>}

\* the coding coefficients
SolverCoefficients == 0..3

\* the rows p and q of the coding coefficients; q1 is 3
SolverRows ==
    {<<<<p1, p2, p3>>, <<3, q2, q3>>>> :
         p1 \in SolverCoefficients, p2 \in SolverCoefficients, p3 \in SolverCoefficients,
         q2 \in SolverCoefficients, q3 \in SolverCoefficients}

\* the arguments of the packet recovery test at the end of gf256_op.py
TestVector ==
    [payloads |-> <<<<97, 98, 99>>, <<120, 121, 122>>, <<106, 107, 108>>>>,
     p |-> <<2, 5, 8>>, q |-> <<3, 7, 1>>]

SolveInit ==
    /\ calc \in {[op |-> "none", args |-> args, result |-> <<>>] :
                    args \in {[payloads |-> <<a, b, c>>, p |-> rows[1], q |-> rows[2]] :
                                  a \in SolverPayloads, b \in SolverPayloads,
                                  c \in SolverPayloads, rows \in SolverRows}
                             \cup {TestVector}}
    /\ Unused

\* a is lost: the repair payload p1*a + p2*b + p3*c is built and a is
\* recovered from it, b and c
RecoverOneLoss ==
    LET a == calc.args.payloads[1]
        b == calc.args.payloads[2]
        c == calc.args.payloads[3]
        p == calc.args.p
    IN  \E repair \in {GF256LinearCombination(<<a, b, c>>, p)} :
            Call("recover_one",
                 GF256PacketRecover(<<repair>>, <<b, c>>,
                                    <<<<p[2], p[3]>>>>, <<<<p[1]>>>>))

\* b and c are lost: the two repair payloads of the rows p and q are built
\* and b, c are recovered from them and a
RecoverTwoLosses ==
    LET a == calc.args.payloads[1]
        b == calc.args.payloads[2]
        c == calc.args.payloads[3]
        p == calc.args.p
        q == calc.args.q
    IN  \E repair1 \in {GF256LinearCombination(<<a, b, c>>, p)} :
        \E repair2 \in {GF256LinearCombination(<<a, b, c>>, q)} :
            Call("recover_two",
                 GF256PacketRecover(<<repair1, repair2>>, <<a>>,
                                    <<<<p[1]>>, <<q[1]>>>>,
                                    <<<<p[2], p[3]>>, <<q[2], q[3]>>>>))

SolveNext == RecoverOneLoss \/ RecoverTwoLosses

SpecSolve == SolveInit /\ [][SolveNext]_vars

\* the payloads of the call all have one length
EqualLengths ==
    \A i \in 1..3 : Len(calc.args.payloads[i]) = Len(calc.args.payloads[1])

\* the matrix of the coefficients of the lost payloads b and c
LostColumns ==
    <<<<calc.args.p[2], calc.args.p[3]>>, <<calc.args.q[2], calc.args.q[3]>>>>

\* C22: for payloads a, b, c of equal length and coefficients c1, c2, c3 with
\* c1 # 0, GF256PacketRecover([c1*a + c2*b + c3*c], [b, c], [[c2, c3]], [[c1]])
\* returns exactly [a]
C22_SingleLossRoundTrip ==
    (calc.op = "recover_one" /\ EqualLengths /\ calc.args.p[1] # 0)
        => /\ ~calc.result.raised
           /\ calc.result.packets = <<calc.args.payloads[1]>>

\* a was recovered from a repair payload that b and c are part of
C22_Witness ==
    /\ calc.op = "recover_one"
    /\ EqualLengths
    /\ calc.args.p[1] = 2
    /\ calc.args.p[2] # 0
    /\ calc.args.p[3] # 0
    /\ calc.args.payloads[1] # calc.args.payloads[2]
    /\ Len(calc.args.payloads[1]) = 2
    /\ calc.result.packets = <<calc.args.payloads[1]>>

\* C23: for payloads a, b, c of equal length and rows p, q whose lost-column
\* matrix [[p2, p3], [q2, q3]] is invertible, GF256PacketRecover([p1*a + p2*b +
\* p3*c, q1*a + q2*b + q3*c], [a], [[p1], [q1]], [[p2, p3], [q2, q3]]) returns
\* exactly [b, c]
C23_MultiLossRoundTrip ==
    (calc.op = "recover_two" /\ EqualLengths /\ ~Singular(LostColumns))
        => /\ ~calc.result.raised
           /\ calc.result.packets = <<calc.args.payloads[2], calc.args.payloads[3]>>

\* the test at the end of gf256_op.py passes
TestVectorPasses ==
    (calc.op = "recover_two" /\ calc.args = TestVector)
        => calc.result.packets = <<calc.args.payloads[2], calc.args.payloads[3]>>

\* C24: for payloads of different lengths the payload GF256PacketRecover
\* returns is the lost payload padded with zeros on the left to the maximum
\* payload length, the padding of GF256LinearCombination
C24_LeftPaddingAgreement ==
    (calc.op = "recover_one" /\ calc.args.p[1] # 0)
        => calc.result.packets =
               <<PadForCombination(calc.args.payloads[1], MaxLenOf(calc.args.payloads))>>

(***************************************************************************)
(* generate_coding_coefficients called several times in a row              *)
(***************************************************************************)

\* the number of calls in a row
MaxCoefCalls == 3

\* the repair keys of the calls; the third draw of rand256 for the key 31 is 0
CoefKeys == {0, 31}

\* the arguments of the calls: <<repair_key, window_size, dt>>
CoefArgs == CoefKeys \X {0, 3, EW_SIZE} \X {3, FEC_MAX_DENSITY, FEC_MAX_DENSITY + 1}

\* the calls generate_coding_coefficients(repair_key, window_size, dt) with
\* what they return, computed once
CoefCalls ==
    {[args |-> args, result |-> generate_coding_coefficients(args[1], args[2], args[3])] :
         args \in CoefArgs}

\* no call yet; earlier is the set of the calls before the last one
CoefInit ==
    /\ calc = [op |-> "none", args |-> <<>>, result |-> <<>>, earlier |-> {}, calls |-> 0]
    /\ Unused

\* generate_coding_coefficients(repair_key, window_size, dt): a new Tinymt32
\* is made for every call
GenerateCodingCoefficients ==
    /\ calc.calls < MaxCoefCalls
    /\ \E call \in CoefCalls :
           calc' = [op      |-> "generate_coding_coefficients",
                    args    |-> call.args,
                    result  |-> call.result,
                    earlier |-> IF calc.op = "none" THEN {}
                                ELSE calc.earlier
                                         \cup {[args |-> calc.args, result |-> calc.result]},
                    calls   |-> calc.calls + 1]
    /\ UNCHANGED <<orig, rxvars, txvars, e2e, stream>>

CoefNext == GenerateCodingCoefficients

SpecCoef == CoefInit /\ [][CoefNext]_vars

C30_DataPacketNssIsZero ==
    (~builder.built.is_none /\ builder.built.packet_type = PACKET_TYPE_ONE_RTT)
        => HeaderByte(builder.built, 1 + Len(peer_cid)) = 0

(***************************************************************************)
(* The paced sender with data packets that fill the datagram               *)
(***************************************************************************)

\* the largest frame start_frame lets into a data packet that starts a
\* datagram: the packet is PACKET_MAX_SIZE bytes long with its tag
FullPayloadSize == PACKET_MAX_SIZE - HeaderSize(PACKET_TYPE_ONE_RTT) - aead_tag_size

\* the sizes of the payloads: all packets of a run have one size
BulkSizes == {FullPayloadSize - aead_tag_size, FullPayloadSize - aead_tag_size + 1,
              FullPayloadSize}

BulkInit ==
    /\ orig \in {[pn \in 0..MaxPacePackets |-> Repeat(17 + pn, n)] : n \in BulkSizes}
    /\ RxFresh
    /\ TxFresh
    /\ e2e = NoE2E
    /\ calc = NoCalc
    /\ stream = NoStream

SpecBulk == BulkInit /\ [][PaceNext]_vars

\* only build_repair_packet ends a packet that does not fit with its tag
OnlyRepairsOverflow ==
    (~builder.packet.is_none /\ ~builder.packet_repair_header)
        => ~EndPacketOverflows(builder)

\* every data packet fits into a datagram
DataPacketsFit ==
    (~builder.built.is_none /\ builder.built.packet_type = PACKET_TYPE_ONE_RTT)
        => builder.built.packet_start + builder.built.sent_bytes <= PACKET_MAX_SIZE

\* C21: when every data packet of the window had a total size of at most
\* PACKET_MAX_SIZE, the repair packet built from the window has a total size
\* of at most PACKET_MAX_SIZE, and neither push_bytes nor the encryption in
\* build_repair_packet exceeds the buffer
C21_RepairFitsInDatagram ==
    tx_last.op = "try_add_repair_packet" =>
        /\ ~tx_last.raised
        /\ \A j \in 1..Len(tx_last.emitted) :
               tx_last.emitted[j].packet.packet_start
                   + tx_last.emitted[j].packet.sent_bytes <= PACKET_MAX_SIZE

(***************************************************************************)
(* What recover() publishes                                                *)
(***************************************************************************)

\* the index in _source_symbols of a symbol: packet_number - _source_symbols_start
SlotOf(symbol) == symbol.packet_number - source_symbols_start

\* C31: when recover() returns a non-empty list of symbols, every returned
\* symbol is stored in _source_symbols at index
\* packet_number - _source_symbols_start, the first nss slots hold no None
\* afterwards, and a recover() that follows immediately returns nothing
C31_RecoveredPublishedOnce ==
    (rx_last.op = "recover" /\ rx_last.kind = "symbols")
        => /\ Len(rx_last.symbols) > 0
           /\ \A i \in 1..Len(rx_last.symbols) :
                  /\ SlotOf(rx_last.symbols[i]) \in 0..(Len(source_symbols) - 1)
                  /\ source_symbols[SlotOf(rx_last.symbols[i]) + 1] = rx_last.symbols[i]
           /\ Len(repair_symbols) > 0
           /\ Len(source_symbols) >= repair_symbols[1].nss
           /\ \A i \in 1..repair_symbols[1].nss : ~source_symbols[i].is_none
           /\ recover(Rec).kind = "none"
           /\ recover(Rec).symbols = <<>>
           /\ recover(Rec).rec = Rec

\* C31 witness: recover() has returned two symbols at once, one of them for
\* the first slot of the window
C31_Witness ==
    /\ rx_last.op = "recover"
    /\ rx_last.kind = "symbols"
    /\ Len(rx_last.symbols) = 2
    /\ SlotOf(rx_last.symbols[1]) = 0

(***************************************************************************)
(* RangeSet: quic/rangeset.py.  A RangeSet is carried as the set of the    *)
(* integers its ranges cover; its ranges are the maximal runs of that set, *)
(* in increasing order.                                                    *)
(***************************************************************************)

\* RangeSet()
RangeSet == {}

\* RangeSet.add(start, stop)
RangeAdd(rs, start, stop) == rs \cup (start..(stop - 1))

\* RangeSet.subtract(start, stop)
RangeSubtract(rs, start, stop) == rs \ (start..(stop - 1))

\* RangeSet.__getitem__(0) of a RangeSet that is not empty
FirstRange(rs) ==
    Let(CHOOSE lo \in rs : \A x \in rs : lo <= x, LAMBDA lo :
        [start |-> lo,
         stop  |-> CHOOSE hi \in (lo + 1)..(lo + Cardinality(rs)) :
                       /\ hi \notin rs
                       /\ \A x \in lo..(hi - 1) : x \in rs])

\* RangeSet.shift(): the RangeSet without its first range
RangeShift(rs) == RangeSubtract(rs, FirstRange(rs).start, FirstRange(rs).stop)

(***************************************************************************)
(* QuicStream, the sending half: quic/stream.py.  s is the record of the   *)
(* stream's fields, named as in the source without the leading underscore. *)
(***************************************************************************)

\* Optional[int]
NoInt == [is_none |-> TRUE, n |-> 0]
SomeInt(n) == [is_none |-> FALSE, n |-> n]

\* lst[a:b] with Python's treatment of negative or too large bounds
Slice(lst, a, b) ==
    Let(IF a < 0 THEN Max2(Len(lst) + a, 0) ELSE Min2(a, Len(lst)), LAMBDA lo :
    Let(IF b < 0 THEN Max2(Len(lst) + b, 0) ELSE Min2(b, Len(lst)), LAMBDA hi :
        [i \in 1..(hi - lo) |-> lst[lo + i]] \o <<>>))

\* QuicStream.__init__(stream_id); send_buffer_empty is the attribute that
\* on_data_delivery creates, "unset" until then
QuicStream(stream_id) ==
    [stream_id                   |-> stream_id,
     send_buffer_is_empty        |-> TRUE,
     send_buffer_empty           |-> "unset",
     send_acked                  |-> RangeSet,
     send_buffer                 |-> <<>>,
     send_buffer_fin             |-> NoInt,
     send_buffer_start           |-> 0,
     send_buffer_stop            |-> 0,
     send_highest                |-> 0,
     send_pending                |-> RangeSet,
     send_pending_eof            |-> FALSE,
     send_fec_window             |-> <<>>,
     send_fec_window_last_offset |-> 0,
     send_fec_ew_size            |-> EW_SIZE,
     send_fec_pace               |-> FEC_PACE,
     send_fec_count              |-> 0,
     send_repair_data            |-> <<>>]

\* QuicStreamFrame(data, fin, offset) (quic/packet.py)
QuicStreamFrame(data, fin, offset) == [data |-> data, fin |-> fin, offset |-> offset]

\* no frame
NoFrame == QuicStreamFrame(<<>>, FALSE, 0)

\* what a call on the stream did: the stream afterwards, and whether the call
\* returned a frame ("data", "repair", "fin"), returned None ("none") or
\* raised ("raised")
StreamResult(s, kind, frame) == [s |-> s, kind |-> kind, frame |-> frame]

\* bytearray("this should be the repair data", 'utf-8')
PlaceholderRepairData ==
    <<116, 104, 105, 115, 32, 115, 104, 111, 117, 108, 100, 32, 98, 101, 32,
      116, 104, 101, 32, 114, 101, 112, 97, 105, 114, 32, 100, 97, 116, 97>>

\* a _build_repair_data whose call of generate_coding_coefficients returns
\* and whose last line stores the repair data
build_repair_data_KeyAccepted(s) ==
    IF s.send_fec_count = s.send_fec_pace
    THEN [raised |-> FALSE,
          s |-> [s EXCEPT !.send_fec_count = 0,
                          !.send_repair_data = PlaceholderRepairData]]
    ELSE [raised |-> FALSE, s |-> s]

\* QuicStream._build_repair_data: repair_key is a bytes object of 8 bytes, and
\* Tinymt32.__init__ shifts its seed (status[0] >> 30), which raises TypeError
\* for bytes; the line that stores the repair data is not reached
build_repair_data(s) ==
    IF s.send_fec_count = s.send_fec_pace
    THEN [raised |-> TRUE, s |-> [s EXCEPT !.send_fec_count = 0]]
    ELSE [raised |-> FALSE, s |-> s]

\* get_frame, "send repair frame if possible": ms is max_size - 1
RepairFrame(s, ms) ==
    Let(Min2(Len(s.send_repair_data), ms), LAMBDA end :
        StreamResult([s EXCEPT !.send_buffer = SliceFrom(@, end)],
                     "repair",
                     QuicStreamFrame(<<Len(s.send_fec_window) % 256>>
                                         \o SliceTo(s.send_repair_data, end),
                                     FALSE, s.send_fec_window_last_offset)))

\* get_frame, "add fec data": the window after data is appended; pop() takes
\* the last entry away again when the window is longer than ew_size
FecWindowAdd(window, data, ew_size) ==
    IF Len(window) + 1 > ew_size THEN window ELSE Append(window, data)

\* get_frame from "get the data in the range" on: the frame for [start, stop)
DataFrame(s, start, stop) ==
    Let(Slice(s.send_buffer, start - s.send_buffer_start, stop - s.send_buffer_start),
        LAMBDA data :
    Let(~s.send_buffer_fin.is_none /\ s.send_buffer_fin.n = stop, LAMBDA fin :
        StreamResult(
            [s EXCEPT !.send_fec_window = FecWindowAdd(@, data, s.send_fec_ew_size),
                      !.send_fec_count = @ + 1,
                      !.send_fec_window_last_offset = start,
                      !.send_pending = RangeSubtract(@, start, stop),
                      !.send_highest = Max2(@, stop),
                      !.send_pending_eof = IF fin THEN FALSE ELSE @],
            "data",
            QuicStreamFrame(<<0>> \o data, fin, start))))

\* get_frame after the repair frame: the first pending range, cut to
\* ms bytes and to max_offset (an Optional[int])
PendingFrame(s, ms, max_offset) ==
    IF s.send_pending = {}
    THEN IF s.send_pending_eof
         THEN StreamResult([s EXCEPT !.send_pending_eof = FALSE], "fin",
                           QuicStreamFrame(<<>>, TRUE, s.send_buffer_fin.n))
         ELSE StreamResult([s EXCEPT !.send_buffer_is_empty = TRUE], "none", NoFrame)
    ELSE
    Let(FirstRange(s.send_pending), LAMBDA r :
    Let(Min2(r.stop, r.start + ms), LAMBDA stop0 :
    Let(IF ~max_offset.is_none /\ stop0 > max_offset.n THEN max_offset.n ELSE stop0,
        LAMBDA stop :
        IF stop <= r.start THEN StreamResult(s, "none", NoFrame)
        ELSE DataFrame(s, r.start, stop))))

\* QuicStream.get_frame(max_size, max_offset)
get_frame(s, max_size, max_offset) ==
    Let(build_repair_data(s), LAMBDA built :
        IF built.raised THEN StreamResult(built.s, "raised", NoFrame)
        ELSE IF Len(built.s.send_repair_data) > 0
        THEN RepairFrame(built.s, max_size - 1)
        ELSE PendingFrame(built.s, max_size - 1, max_offset))

\* QuicDeliveryState (quic/packet_builder.py)
ACKED == "ACKED"
LOST == "LOST"

\* on_data_delivery, the branch of ACKED
DeliveryAcked(s, start, stop) ==
    IF stop <= start THEN s
    ELSE Let(RangeAdd(s.send_acked, start, stop), LAMBDA acked :
         Let(FirstRange(acked), LAMBDA first_range :
             IF first_range.start # s.send_buffer_start
             THEN [s EXCEPT !.send_acked = acked]
             ELSE Let(first_range.stop - first_range.start, LAMBDA size :
                  [s EXCEPT !.send_acked = RangeShift(acked),
                            !.send_buffer_start = @ + size,
                            !.send_buffer = SliceFrom(@, size)])))

\* on_data_delivery, the branch of every other delivery state
DeliveryLost(s, start, stop) ==
    Let(IF stop > start THEN [s EXCEPT !.send_pending = RangeAdd(@, start, stop)] ELSE s,
        LAMBDA s1 :
        IF ~s1.send_buffer_fin.is_none /\ stop = s1.send_buffer_fin.n
        THEN [s1 EXCEPT !.send_buffer_empty = "False", !.send_pending_eof = TRUE]
        ELSE s1)

\* QuicStream.on_data_delivery(delivery, start, stop)
on_data_delivery(s, delivery, start, stop) ==
    Let([s EXCEPT !.send_buffer_is_empty = FALSE], LAMBDA s0 :
        StreamResult(IF delivery = ACKED THEN DeliveryAcked(s0, start, stop)
                     ELSE DeliveryLost(s0, start, stop),
                     "none", NoFrame))

\* QuicStream.write(data, end_stream); reset() is never called
write(s, data, end_stream) ==
    IF ~s.send_buffer_fin.is_none THEN StreamResult(s, "raised", NoFrame)
    ELSE
    Let(IF Len(data) > 0
        THEN [s EXCEPT !.send_buffer_is_empty = FALSE,
                       !.send_pending = RangeAdd(@, s.send_buffer_stop,
                                                 s.send_buffer_stop + Len(data)),
                       !.send_buffer = @ \o data,
                       !.send_buffer_stop = @ + Len(data)]
        ELSE s, LAMBDA s1 :
        StreamResult(IF end_stream
                     THEN [s1 EXCEPT !.send_buffer_is_empty = FALSE,
                                     !.send_buffer_fin = SomeInt(s1.send_buffer_stop),
                                     !.send_pending_eof = TRUE]
                     ELSE s1,
                     "none", NoFrame))

(***************************************************************************)
(* One QuicStream and its callers: the application writes, the connection  *)
(* asks for frames and reports, once for every frame it was given, that    *)
(* the frame was acknowledged or lost                                      *)
(***************************************************************************)

\* calls of write, of on_data_delivery and of get_frame with a limit on one stream
MaxStreamCalls == 5

\* what the application writes in one call
StreamData == {<<>>, <<1>>, <<2, 3>>}

\* the max_size of a get_frame that is cut short, and the max_size of one
\* that is large enough for everything written
SmallFrameSizes == {2, 3}
LargeFrameSize == PACKET_MAX_SIZE

\* the max_offset of a get_frame that flow control limits
LimitedOffsets == {SomeInt(1)}

\* the byte range [start, stop) of the stream a returned frame carries; the
\* first byte of a data frame's data is the marker 0
FrameRange(frame) ==
    [start |-> frame.offset,
     stop  |-> frame.offset + Max2(Len(frame.data) - 1, 0),
     fin   |-> frame.fin]

\* the frames in flight after a call of get_frame
InFlightAfter(inflight, r) ==
    IF r.kind \in {"data", "fin"} THEN inflight \cup {FrameRange(r.frame)} ELSE inflight

\* the state after a call: args are the arguments of the call
StreamAfter(op, args, r, inflight, calls) ==
    [op |-> op, args |-> args, s |-> r.s, kind |-> r.kind, frame |-> r.frame,
     inflight |-> inflight, calls |-> calls]

\* a stream right after QuicStream(stream_id=0)
StreamInit ==
    /\ stream = StreamAfter("init", <<>>, StreamResult(QuicStream(0), "none", NoFrame), {}, 0)
    /\ calc = NoCalc
    /\ orig = [pn \in {} |-> <<>>]
    /\ RxFresh
    /\ TxFresh
    /\ e2e = NoE2E

StreamUnchanged == UNCHANGED <<orig, rxvars, txvars, e2e, calc>>

\* write(data, end_stream)
StreamWrite ==
    \E data \in StreamData, end_stream \in BOOLEAN :
        /\ stream.calls < MaxStreamCalls
        /\ stream' = StreamAfter("write", <<data, end_stream>>,
                                 write(stream.s, data, end_stream),
                                 stream.inflight, stream.calls + 1)
        /\ StreamUnchanged

\* get_frame(max_size, max_offset) with a small max_size or a max_offset
StreamGetFrameLimited ==
    \E max_size \in SmallFrameSizes \cup {LargeFrameSize},
       max_offset \in LimitedOffsets \cup {NoInt} :
        /\ max_size \in SmallFrameSizes \/ ~max_offset.is_none
        /\ stream.calls < MaxStreamCalls
        /\ \E r \in {get_frame(stream.s, max_size, max_offset)} :
               stream' = StreamAfter("get_frame", <<max_size, max_offset>>, r,
                                     InFlightAfter(stream.inflight, r),
                                     stream.calls + 1)
        /\ StreamUnchanged

\* get_frame(max_size) with a max_size that is large enough and no max_offset
StreamGetFrame ==
    /\ \E r \in {get_frame(stream.s, LargeFrameSize, NoInt)} :
           stream' = StreamAfter("get_frame", <<LargeFrameSize, NoInt>>, r,
                                 InFlightAfter(stream.inflight, r), stream.calls)
    /\ StreamUnchanged

\* on_data_delivery(delivery, start, stop) for a frame in flight
StreamDelivery ==
    \E f \in stream.inflight, delivery \in {ACKED, LOST} :
        /\ stream.calls < MaxStreamCalls
        /\ stream' = StreamAfter("on_data_delivery", <<delivery, f.start, f.stop>>,
                                 on_data_delivery(stream.s, delivery, f.start, f.stop),
                                 stream.inflight \ {f}, stream.calls + 1)
        /\ StreamUnchanged

StreamNext == StreamWrite \/ StreamGetFrameLimited \/ StreamGetFrame \/ StreamDelivery

\* any sequence of calls on one stream
SpecStream == StreamInit /\ [][StreamNext]_vars

\* the connection keeps asking the stream for frames
SpecStreamFair == SpecStream /\ WF_vars(StreamGetFrame)

(***************************************************************************)
(* Properties of the stream's send buffer                                  *)
(***************************************************************************)

\* the last call on the stream was op
StreamCalled(op) == stream'.op = op /\ stream' # stream

\* the offsets of the bytes that left the front of _send_buffer in this step
RemovedOffsets == stream.s.send_buffer_start..(stream'.s.send_buffer_start - 1)

\* C32: after any sequence of write, get_frame and on_data_delivery calls
\* len(_send_buffer) == _send_buffer_stop - _send_buffer_start; get_frame
\* never changes _send_buffer; _send_buffer grows only by the bytes of a
\* write at its end, and it loses bytes only in on_data_delivery(ACKED), at
\* its front, all of them acknowledged
C32_SendBufferInvariant ==
    /\ [](Len(stream.s.send_buffer)
              = stream.s.send_buffer_stop - stream.s.send_buffer_start)
    /\ [][/\ stream'.op = "get_frame"
                 => stream'.s.send_buffer = stream.s.send_buffer
          /\ stream'.s.send_buffer # stream.s.send_buffer
                 => \/ /\ stream'.op = "write"
                       /\ stream'.s.send_buffer = stream.s.send_buffer \o stream'.args[1]
                       /\ stream'.s.send_buffer_start = stream.s.send_buffer_start
                    \/ /\ stream'.op = "on_data_delivery"
                       /\ stream'.args[1] = ACKED
                       /\ RemovedOffsets # {}
                       /\ stream'.s.send_buffer
                              = SliceFrom(stream.s.send_buffer, Cardinality(RemovedOffsets))
                       /\ RemovedOffsets \subseteq
                              stream.s.send_acked
                                  \cup (stream'.args[2]..(stream'.args[3] - 1))]_vars

\* C32 witness: get_frame has returned a data frame from a _send_buffer whose
\* first bytes an acknowledgement had removed
C32_Witness ==
    /\ stream.op = "get_frame"
    /\ stream.kind = "data"
    /\ stream.s.send_buffer_start > 0
    /\ stream.frame.offset >= stream.s.send_buffer_start
    /\ Len(stream.s.send_buffer) > 0

(***************************************************************************)
(* Progress of the stream's sending                                        *)
(***************************************************************************)

\* bytes are waiting to be sent
SendPending == stream.s.send_pending # {}

\* C33: on a stream on which bytes were written, every call of get_frame
\* with a max_size that is large enough and no max_offset returns, and such
\* calls, repeated, return data frames for every written byte range, so that
\* _send_pending becomes empty; a repair frame among the returned frames
\* does not keep the later calls from returning data frames
C33_StreamSendingProgress ==
    /\ [][StreamGetFrame
              => /\ stream'.kind # "raised"
                 /\ (SendPending /\ stream.kind = "repair") => stream'.kind = "data"]_vars
    /\ SendPending ~> ~SendPending

====
